---- MODULE Spec2Model ----
(***************************************************************************)
(* Response normalisation and multi-page combination of the syllabus       *)
(* scanner server (combineAllResults, extractBulletPoints,                 *)
(* parseSyllabusData, extractField, extractAssignments,                    *)
(* parseAssignmentBullet).                                                 *)
(*                                                                         *)
(* A JavaScript string is modelled as the sequence of its UTF-16 code      *)
(* units, each code unit a one-element TLA+ string.  Code units outside    *)
(* ASCII carry a name: BULLET is U+2022, RULE is U+2501 and the six        *)
(* section glyphs are their surrogate pairs ("D83C","DF93" is U+1F393).    *)
(***************************************************************************)
EXTENDS Integers, Sequences, FiniteSets, TLC

VARIABLES
  pc,                 \* position of the modelled call
  tzOffset,           \* hours the server's local time is ahead of UTC
  lenientDates,       \* whether Date accepts a leading unrecognised word
  bulletIn,           \* parseAssignmentBullet: argument bullet
  sectionIn,          \* parseAssignmentBullet: argument section
  assignment,         \* parseAssignmentBullet: returned record, <<>> before the call
  content,            \* extractBulletPoints: argument content
  sectionTitle,       \* extractBulletPoints: argument sectionTitle
  extracted,          \* extractBulletPoints: returned list
  layout,             \* the sections from which content was laid out
  allPageData,        \* combineAllResults: argument, the page results in list order
  pageIdx,            \* combineAllResults: index of the forEach iteration
  courseInfo,         \* combineAllResults: the course fields found so far
  testDates,          \* combineAllResults: accumulated test dates
  assignmentDeadlines,
  weeklyReadings,
  majorDeliverables,
  importantDates,
  aiResponse,         \* plain_text of the analysis result, <<>> before it exists
  courseData,         \* parseSyllabusData: returned courseData
  assignments,        \* parseSyllabusData: returned assignments
  proc,               \* the program that runs: "server.js", "part_001" or "worker"
  activeDatabase,     \* startServer: "null", "mysql" or "sqlite"
  healthRes,          \* GET /health: the answer sent, <<>> before it
  reqFile,            \* req.file or the job's file: <<>> or <<[mimetype, ext]>>
  fileOnDisk,         \* the uploaded file (the job's file) exists
  pdfText,            \* what text extraction of the PDF gave: "none" before it
  aiValue,            \* the value analyzeSyllabusWithOpenAI returned, <<>> before
  courseId,           \* courseId, 0 for null
  saveIdx,            \* saveMultipleAssignments: index of the loop
  attempted,          \* saveMultipleAssignments: indexes handed to saveAssignment
  inserted,           \* the inserts that succeeded: index and id given
  savedAssignments,   \* saveMultipleAssignments: the ids pushed
  res,                \* the response sent: <<>> or <<[status, ...]>>
  jobRow,             \* worker: the job's row in the jobs table
  effects,            \* which of analysis, model call, database write happened
  files,              \* part_001 analysis: the sorted page images of the PDF, by page
  scratch,            \* the page images that exist in the upload directory
  keyPages,           \* the indexes of files selected for analysis
  pageCalls,          \* the promises of keyPages.map, in the order of keyPages
  jobs,               \* the jobs table: the status of each job, by created_at
  workers,            \* runWorker: each worker process's position, batch and job
  courseRows,         \* how many course rows the saves of each job inserted
  terminalWrites,     \* how often each job was written completed or failed
  pool,               \* pooled Database: this.pool
  connection,         \* pooled Database: this.connection
  dbCalls             \* pooled Database: the operations called and how they ended

envVars == <<tzOffset, lenientDates>>

bulletVars == <<bulletIn, sectionIn, assignment>>

extractVars == <<content, sectionTitle, extracted, layout>>

mergeVars ==
  <<allPageData, pageIdx, courseInfo, testDates, assignmentDeadlines,
    weeklyReadings, majorDeliverables, importantDates>>

parseVars == <<aiResponse, courseData, assignments>>

saveVars == <<courseId, saveIdx, attempted, inserted, savedAssignments>>

flowVars ==
  <<proc, activeDatabase, healthRes, reqFile, fileOnDisk, pdfText, aiValue, saveVars,
    res, jobRow, effects>>

pageVars == <<files, scratch, keyPages, pageCalls>>

queueVars == <<jobs, workers, courseRows, terminalWrites>>

poolVars == <<pool, connection, dbCalls>>

\* the variables of the specifications that come after the upload flows
restVars == <<pageVars, queueVars, poolVars>>

vars == <<pc, envVars, bulletVars, extractVars, mergeVars, parseVars, flowVars, restVars>>

-----------------------------------------------------------------------------
(* Bounds *)

\* the server's timezone offsets range over -MaxTzHours..MaxTzHours
MaxTzHours == 1

\* combineAllResults is given at most MaxPages page results
MaxPages == 3

\* a laid-out response text has at most MaxSections sections
MaxSections == 2

-----------------------------------------------------------------------------
(* Code units and the character classes of the regular expressions *)

BULLET == "BULLET"
RULE == "RULE"

Digits == {"0", "1", "2", "3", "4", "5", "6", "7", "8", "9"}

DigitTable == <<"0", "1", "2", "3", "4", "5", "6", "7", "8", "9">>

UpperTable == <<"A", "B", "C", "D", "E", "F", "G", "H", "I", "J", "K", "L", "M", "N", "O", "P", "Q", "R", "S", "T", "U", "V", "W", "X", "Y", "Z">>

LowerTable == <<"a", "b", "c", "d", "e", "f", "g", "h", "i", "j", "k", "l", "m", "n", "o", "p", "q", "r", "s", "t", "u", "v", "w", "x", "y", "z">>

UpperLetters == {UpperTable[i] : i \in 1..26}

LowerLetters == {LowerTable[i] : i \in 1..26}

Letters == UpperLetters \cup LowerLetters

\* \w
WordChars == Letters \cup Digits \cup {"_"}

\* \s
Whitespace == {" ", "\n", "\t"}

\* [🎓📝📋📚🎯📅] in a pattern without the u flag: a class of code units
SectionGlyphUnits == {"D83C", "DF93", "D83D", "DCDD", "DCCB", "DCDA", "DFAF", "DCC5"}

LowerOf == [c \in UpperLetters |-> LowerTable[CHOOSE i \in 1..26 : UpperTable[i] = c]]

ToLowerChar(c) == IF c \in UpperLetters THEN LowerOf[c] ELSE c

toLowerCase(s) == [i \in 1..Len(s) |-> ToLowerChar(s[i])]

DigitVal(c) == (CHOOSE i \in 1..10 : DigitTable[i] = c) - 1

-----------------------------------------------------------------------------
(* String primitives *)

\* w occurs in s at index i (1-based)
MatchAt(s, i, w) ==
  /\ i >= 1
  /\ i + Len(w) - 1 <= Len(s)
  /\ \A k \in 1..Len(w) : s[i + k - 1] = w[k]

\* the same, compared without regard to ASCII case (flag i)
MatchAtI(s, i, w) ==
  /\ i >= 1
  /\ i + Len(w) - 1 <= Len(s)
  /\ \A k \in 1..Len(w) : ToLowerChar(s[i + k - 1]) = ToLowerChar(w[k])

MinOf(S) == CHOOSE i \in S : \A j \in S : i <= j

\* String.prototype.indexOf, 1-based, 0 when absent
indexOf(s, w) ==
  LET hits == {i \in 1..(Len(s) - Len(w) + 1) : MatchAt(s, i, w)}
  IN IF hits = {} THEN 0 ELSE MinOf(hits)

\* String.prototype.includes
includes(s, w) == \E i \in 1..(Len(s) - Len(w) + 1) : MatchAt(s, i, w)

\* index after the longest run of characters of class C that starts at i
RunEnd(s, i, C) ==
  CHOOSE j \in i..(Len(s) + 1) :
    /\ \A k \in i..(j - 1) : s[k] \in C
    /\ (j = Len(s) + 1 \/ s[j] \notin C)

\* String.prototype.trim
trim(s) ==
  LET keep == {i \in 1..Len(s) : s[i] \notin Whitespace}
  IN IF keep = {} THEN <<>>
     ELSE SubSeq(s, MinOf(keep), CHOOSE i \in keep : \A j \in keep : j <= i)

\* s.replace(w, ''): the first occurrence of the string w is removed
RemoveFirst(s, w) ==
  LET i == indexOf(s, w)
  IN IF i = 0 \/ Len(w) = 0 THEN s
     ELSE SubSeq(s, 1, i - 1) \o SubSeq(s, i + Len(w), Len(s))

\* s.replace(/[:-]/g, '') and the like: every character of class C is removed
RemoveAll(s, C) == SelectSeq(s, LAMBDA c : c \notin C)

\* value of a run of decimal digits
RECURSIVE NumVal(_)
NumVal(ds) ==
  IF ds = <<>> THEN 0
  ELSE 10 * NumVal(SubSeq(ds, 1, Len(ds) - 1)) + DigitVal(ds[Len(ds)])

-----------------------------------------------------------------------------
(* parseAssignmentBullet: the four date patterns *)

IsDigitAt(s, i) == i >= 1 /\ i <= Len(s) /\ s[i] \in Digits

\* /(\w+\s+\d{1,2},?\s+\d{4})/ tried at start index i: index after the match, 0 if none
MonthDayYearEnd(s, i) ==
  LET a == RunEnd(s, i, WordChars)
      b == RunEnd(s, a, Whitespace)
      c == RunEnd(s, b, Digits)
      d == IF c <= Len(s) /\ s[c] = "," THEN c + 1 ELSE c
      e == RunEnd(s, d, Whitespace)
  IN IF /\ a > i
        /\ b > a
        /\ c - b \in {1, 2}
        /\ e > d
        /\ \A k \in 0..3 : IsDigitAt(s, e + k)
     THEN e + 4 ELSE 0

\* /(\d{1,2}SEP\d{1,2}SEP\d{4})/ tried at start index i, SEP being "/" or "-"
NumericDateEnd(s, i, sep) ==
  LET a == IF IsDigitAt(s, i) /\ IsDigitAt(s, i + 1) /\ MatchAt(s, i + 2, <<sep>>) THEN i + 3
           ELSE IF IsDigitAt(s, i) /\ MatchAt(s, i + 1, <<sep>>) THEN i + 2
           ELSE 0
      b == IF a = 0 THEN 0
           ELSE IF IsDigitAt(s, a) /\ IsDigitAt(s, a + 1) /\ MatchAt(s, a + 2, <<sep>>) THEN a + 3
           ELSE IF IsDigitAt(s, a) /\ MatchAt(s, a + 1, <<sep>>) THEN a + 2
           ELSE 0
  IN IF b # 0 /\ \A k \in 0..3 : IsDigitAt(s, b + k) THEN b + 4 ELSE 0

\* /(\w+\s+\d{1,2})/ tried at start index i
MonthDayEnd(s, i) ==
  LET a == RunEnd(s, i, WordChars)
      b == RunEnd(s, a, Whitespace)
  IN IF a > i /\ b > a /\ IsDigitAt(s, b)
     THEN (IF IsDigitAt(s, b + 1) THEN b + 2 ELSE b + 1)
     ELSE 0

\* datePatterns[p] tried at start index i
PatternEnd(p, s, i) ==
  CASE p = 1 -> MonthDayYearEnd(s, i)
    [] p = 2 -> NumericDateEnd(s, i, "/")
    [] p = 3 -> NumericDateEnd(s, i, "-")
    [] p = 4 -> MonthDayEnd(s, i)

\* bullet.match(datePatterns[p]): match[1] of the leftmost match, <<>> when there is none
datePatterns(p, s) ==
  LET starts == {i \in 1..Len(s) : PatternEnd(p, s, i) # 0}
  IN IF starts = {} THEN <<>>
     ELSE SubSeq(s, MinOf(starts), PatternEnd(p, s, MinOf(starts)) - 1)

-----------------------------------------------------------------------------
(* new Date(match[1]).toISOString().split('T')[0]                           *)
(*                                                                         *)
(* The matched text is not in the ISO format, so Date falls back to the    *)
(* engine's legacy parser, which reads it as LOCAL time.  The legacy       *)
(* parser is modelled on the texts the four patterns can match: runs of    *)
(* letters, runs of digits, white space, and the symbols , / - _           *)
(* (the words of the modelled lines are never time zone or AM/PM names).   *)

InvalidDate == [y |-> 0, m |-> 0, d |-> 0]

MonthNames ==
  <<<<"j", "a", "n">>, <<"f", "e", "b">>, <<"m", "a", "r">>, <<"a", "p", "r">>, <<"m", "a", "y">>, <<"j", "u", "n">>,
    <<"j", "u", "l">>, <<"a", "u", "g">>, <<"s", "e", "p">>, <<"o", "c", "t">>, <<"n", "o", "v">>, <<"d", "e", "c">>>>

\* a word names a month when its first three letters do, 0 otherwise
MonthOf(word) ==
  LET hits == {m \in 1..12 : MatchAtI(word, 1, MonthNames[m])}
  IN IF hits = {} THEN 0 ELSE MinOf(hits)

RECURSIVE DateTokens(_, _)
DateTokens(s, i) ==
  IF i > Len(s) THEN <<>>
  ELSE IF s[i] \in Letters THEN
    <<[kind |-> "word", text |-> SubSeq(s, i, RunEnd(s, i, Letters) - 1)]>>
      \o DateTokens(s, RunEnd(s, i, Letters))
  ELSE IF s[i] \in Digits THEN
    <<[kind |-> "number", text |-> SubSeq(s, i, RunEnd(s, i, Digits) - 1)]>>
      \o DateTokens(s, RunEnd(s, i, Digits))
  ELSE IF s[i] \in Whitespace THEN
    <<[kind |-> "space", text |-> SubSeq(s, i, RunEnd(s, i, Whitespace) - 1)]>>
      \o DateTokens(s, RunEnd(s, i, Whitespace))
  ELSE <<[kind |-> "symbol", text |-> <<s[i]>>]>> \o DateTokens(s, i + 1)

IsKind(toks, i, kind) == i >= 1 /\ i <= Len(toks) /\ toks[i].kind = kind

\* a '-' right after a number or a month name is skipped
AfterDash(toks, i) ==
  IF IsKind(toks, i + 1, "symbol") /\ toks[i + 1].text = <<"-">> THEN i + 2 ELSE i + 1

\* one pass over the tokens: the numbers read, the month named, whether an
\* unrecognised word was skipped, and whether the text is still acceptable
RECURSIVE LegacyScan(_, _, _)
LegacyScan(toks, i, st) ==
  IF i > Len(toks) \/ ~st.ok THEN st
  ELSE IF toks[i].kind = "number" THEN
    IF Len(st.comps) = 3 THEN [st EXCEPT !.ok = FALSE]
    ELSE LegacyScan(toks, AfterDash(toks, i),
                    [st EXCEPT !.comps = Append(@, NumVal(toks[i].text))])
  ELSE IF toks[i].kind = "word" THEN
    IF MonthOf(toks[i].text) # 0
    THEN LegacyScan(toks, AfterDash(toks, i), [st EXCEPT !.month = MonthOf(toks[i].text)])
    ELSE IF Len(st.comps) > 0 \/ IsKind(toks, i + 1, "number")
    THEN [st EXCEPT !.ok = FALSE]
    ELSE LegacyScan(toks, i + 1, [st EXCEPT !.garbage = TRUE])
  ELSE IF toks[i].kind = "symbol" /\ toks[i].text = <<"-">> /\ Len(st.comps) > 0
  THEN [st EXCEPT !.ok = FALSE]
  ELSE LegacyScan(toks, i + 1, st)

IsDay(n) == n >= 1 /\ n <= 31

IsMonth(n) == n >= 1 /\ n <= 12

IsLeapYear(y) == (y % 4 = 0 /\ y % 100 # 0) \/ y % 400 = 0

DaysInMonth(y, m) ==
  IF m = 2 THEN (IF IsLeapYear(y) THEN 29 ELSE 28)
  ELSE IF m \in {4, 6, 9, 11} THEN 30 ELSE 31

\* years 0..49 are 2000..2049, years 50..99 are 1950..1999
FullYear(y) == IF y <= 49 THEN y + 2000 ELSE IF y <= 99 THEN y + 1900 ELSE y

\* a day past the end of its month runs over into the next month
MakeDay(y, m, d) ==
  IF ~IsMonth(m) \/ ~IsDay(d) THEN InvalidDate
  ELSE IF d <= DaysInMonth(FullYear(y), m) THEN [y |-> FullYear(y), m |-> m, d |-> d]
  ELSE IF m = 12 THEN [y |-> FullYear(y) + 1, m |-> 1, d |-> d - DaysInMonth(FullYear(y), m)]
  ELSE [y |-> FullYear(y), m |-> m + 1, d |-> d - DaysInMonth(FullYear(y), m)]

\* missing day, month and year components default to 1
PadComps(comps) == comps \o SubSeq(<<1, 1, 1>>, 1, 3 - Len(comps))

\* new Date(text): the local calendar day, or InvalidDate.  Skipping a leading
\* unrecognised word is engine behaviour outside the language standard, so it
\* happens only when lenient holds.
LocalDate(text, lenient) ==
  LET st == LegacyScan(DateTokens(text, 1), 1,
                       [ok |-> TRUE, comps |-> <<>>, month |-> 0, garbage |-> FALSE])
      c == PadComps(st.comps)
  IN IF ~st.ok \/ st.comps = <<>> \/ (st.garbage /\ ~lenient) THEN InvalidDate
     ELSE IF st.month # 0
       THEN (IF ~IsDay(c[1]) THEN MakeDay(c[1], st.month, c[2])
                             ELSE MakeDay(c[2], st.month, c[1]))
     ELSE IF ~IsDay(c[1]) THEN MakeDay(c[1], c[2], c[3])
     ELSE MakeDay(c[3], c[1], c[2])

PrevDay(date) ==
  IF date.d > 1 THEN [date EXCEPT !.d = @ - 1]
  ELSE IF date.m > 1 THEN [date EXCEPT !.m = @ - 1, !.d = DaysInMonth(date.y, date.m - 1)]
  ELSE [y |-> date.y - 1, m |-> 12, d |-> 31]

\* toISOString() gives the UTC day of local midnight: midnight at tz hours
\* ahead of UTC is hour 0 - tz of the UTC clock
UTCDate(date, tz) == IF 0 - tz < 0 THEN PrevDay(date) ELSE date

Pad2(n) == <<DigitTable[(n \div 10) + 1], DigitTable[(n % 10) + 1]>>

\* YYYY-MM-DD
ISODate(date) == Pad2(date.y \div 100) \o Pad2(date.y % 100) \o <<"-">> \o Pad2(date.m) \o <<"-">> \o Pad2(date.d)

\* the try block's first statement: the new dueDate, <<>> when toISOString throws
toISOString(text, tz, lenient) ==
  IF LocalDate(text, lenient) = InvalidDate THEN <<>>
  ELSE ISODate(UTCDate(LocalDate(text, lenient), tz))

-----------------------------------------------------------------------------
(* parseAssignmentBullet *)

\* a loop that gives up at the first date that does not parse
StopAfterInvalidDate(p) == 5

\* catch (e) { /* Invalid date, continue */ }: the loop goes on with the next pattern
AfterInvalidDate(p) == p + 1

\* the for loop over datePatterns from index p on; dueDate <<>> is null
RECURSIVE ScanDatePatterns(_, _, _, _)
ScanDatePatterns(bullet, p, tz, lenient) ==
  IF p > 4 THEN [dueDate |-> <<>>, title |-> bullet]
  ELSE LET match == datePatterns(p, bullet)
           iso == toISOString(match, tz, lenient)
       IN IF match = <<>> THEN ScanDatePatterns(bullet, p + 1, tz, lenient)
          ELSE IF iso = <<>> THEN ScanDatePatterns(bullet, AfterInvalidDate(p), tz, lenient)
          ELSE [dueDate |-> iso,
                title |-> trim(RemoveAll(RemoveFirst(bullet, match), {":", "-"}))]

\* the chain with the project test moved before the reading test
ClassifyTypeProjectFirst(bullet, section) ==
  IF \/ includes(toLowerCase(section), <<"t", "e", "s", "t">>)
     \/ includes(toLowerCase(section), <<"e", "x", "a", "m">>)
     \/ includes(toLowerCase(bullet), <<"e", "x", "a", "m">>)
     \/ includes(toLowerCase(bullet), <<"t", "e", "s", "t">>)
  THEN "exam"
  ELSE IF \/ includes(toLowerCase(bullet), <<"a", "s", "s", "i", "g", "n", "m", "e", "n", "t">>)
          \/ includes(toLowerCase(bullet), <<"h", "o", "m", "e", "w", "o", "r", "k">>)
  THEN "assignment"
  ELSE IF includes(toLowerCase(bullet), <<"p", "r", "o", "j", "e", "c", "t">>) THEN "project"
  ELSE IF includes(toLowerCase(bullet), <<"r", "e", "a", "d", "i", "n", "g">>) THEN "reading"
  ELSE IF includes(toLowerCase(bullet), <<"q", "u", "i", "z">>) THEN "quiz"
  ELSE "other"

\* the chain without toLowerCase
ClassifyTypeCaseSensitive(bullet, section) ==
  IF \/ includes(section, <<"t", "e", "s", "t">>)
     \/ includes(section, <<"e", "x", "a", "m">>)
     \/ includes(bullet, <<"e", "x", "a", "m">>)
     \/ includes(bullet, <<"t", "e", "s", "t">>)
  THEN "exam"
  ELSE IF includes(bullet, <<"a", "s", "s", "i", "g", "n", "m", "e", "n", "t">>) \/ includes(bullet, <<"h", "o", "m", "e", "w", "o", "r", "k">>) THEN "assignment"
  ELSE IF includes(bullet, <<"r", "e", "a", "d", "i", "n", "g">>) THEN "reading"
  ELSE IF includes(bullet, <<"p", "r", "o", "j", "e", "c", "t">>) THEN "project"
  ELSE IF includes(bullet, <<"q", "u", "i", "z">>) THEN "quiz"
  ELSE "other"

\* the if/else chain that determines the assignment type
ClassifyType(bullet, section) ==
  IF \/ includes(toLowerCase(section), <<"t", "e", "s", "t">>)
     \/ includes(toLowerCase(section), <<"e", "x", "a", "m">>)
     \/ includes(toLowerCase(bullet), <<"e", "x", "a", "m">>)
     \/ includes(toLowerCase(bullet), <<"t", "e", "s", "t">>)
  THEN "exam"
  ELSE IF \/ includes(toLowerCase(bullet), <<"a", "s", "s", "i", "g", "n", "m", "e", "n", "t">>)
          \/ includes(toLowerCase(bullet), <<"h", "o", "m", "e", "w", "o", "r", "k">>)
  THEN "assignment"
  ELSE IF includes(toLowerCase(bullet), <<"r", "e", "a", "d", "i", "n", "g">>) THEN "reading"
  ELSE IF includes(toLowerCase(bullet), <<"p", "r", "o", "j", "e", "c", "t">>) THEN "project"
  ELSE IF includes(toLowerCase(bullet), <<"q", "u", "i", "z">>) THEN "quiz"
  ELSE "other"

parseAssignmentBullet(bullet, section, tz, lenient) ==
  LET scan == ScanDatePatterns(bullet, 1, tz, lenient)
  IN [title |-> IF scan.title # <<>> THEN scan.title ELSE bullet,
      due_date |-> scan.dueDate,
      due_time |-> <<>>,
      type |-> ClassifyType(bullet, section),
      description |-> bullet]

-----------------------------------------------------------------------------
(* Section scanning shared by extractBulletPoints and extractAssignments *)

PLACEHOLDER == <<"N", "o", "t", " ", "s", "p", "e", "c", "i", "f", "i", "e", "d", " ", "i", "n", " ", "d", "o", "c", "u", "m", "e", "n", "t">>

MaxOf(S) == CHOOSE i \in S : \A j \in S : j <= i

\* (?=\n\s*[🎓📝📋📚🎯📅]|$) holds at index e
SectionBoundaryAt(s, e) ==
  \/ e = Len(s) + 1
  \/ /\ e <= Len(s)
     /\ s[e] = "\n"
     /\ RunEnd(s, e + 1, Whitespace) <= Len(s)
     /\ s[RunEnd(s, e + 1, Whitespace)] \in SectionGlyphUnits

\* a capture that runs to the end of the text
CaptureToEnd(s, i) == Len(s) + 1

\* ([\s\S]*?) from index i: the index at which the lazy capture stops
LazyEnd(s, i) == MinOf({e \in i..(Len(s) + 1) : SectionBoundaryAt(s, e)})

\* /•\s*([^\n]+)/ tried at the bullet at index i: index after the match, 0 if none
BulletMatchEnd(s, i) ==
  LET w == RunEnd(s, i + 1, Whitespace)
      back == {k \in (i + 1)..(w - 1) : s[k] # "\n"}
  IN IF w <= Len(s) THEN RunEnd(s, w, {s[k] : k \in 1..Len(s)} \ {"\n"})
     ELSE IF back # {} THEN RunEnd(s, MaxOf(back), {s[k] : k \in 1..Len(s)} \ {"\n"})
     ELSE 0

\* s.match(/•\s*([^\n]+)/g) from index i on: the matched texts in order
RECURSIVE BulletMatches(_, _)
BulletMatches(s, i) ==
  LET starts == {k \in i..Len(s) : s[k] = BULLET /\ BulletMatchEnd(s, k) # 0}
  IN IF starts = {} THEN <<>>
     ELSE LET from == MinOf(starts)
              to == BulletMatchEnd(s, from)
          IN <<SubSeq(s, from, to - 1)>> \o BulletMatches(s, to)

\* bullet.replace(/^•\s*/, '').trim()
CleanBullet(b) ==
  IF b # <<>> /\ b[1] = BULLET THEN trim(SubSeq(b, RunEnd(b, 2, Whitespace), Len(b)))
  ELSE trim(b)

Map(f(_), s) == [i \in 1..Len(s) |-> f(s[i])]

-----------------------------------------------------------------------------
(* extractBulletPoints (helper of combineAllResults) *)

\* sectionTitle matched at index i, then \s*\n: the index where the capture
\* group starts (after the last newline of the white space), 0 if no match
SectionBodyStart(s, i, title) ==
  IF ~MatchAtI(s, i, title) THEN 0
  ELSE LET a == i + Len(title)
           nls == {k \in a..(RunEnd(s, a, Whitespace) - 1) : s[k] = "\n"}
       IN IF nls = {} THEN 0 ELSE MaxOf(nls) + 1

\* sectionMatch[1], as <<text>>, or <<>> when the pattern does not match
\* (the capture ends at the first section boundary)
SectionContent(s, title) ==
  LET heads == {i \in 1..Len(s) : SectionBodyStart(s, i, title) # 0}
  IN IF heads = {} THEN <<>>
     ELSE LET from == SectionBodyStart(s, MinOf(heads), title)
          IN <<SubSeq(s, from, LazyEnd(s, from) - 1)>>

\* the filter applied to the cleaned bullets
KeepBullet(b) ==
  /\ b # <<>>
  /\ ~includes(b, PLACEHOLDER)
  /\ ~includes(b, <<"T", "E", "S", "T", " ", "D", "A", "T", "E", "S">>)
  /\ ~includes(b, <<"A", "S", "S", "I", "G", "N", "M", "E", "N", "T", " ", "D", "E", "A", "D", "L", "I", "N", "E">>)
  /\ Len(b) > 5

extractBulletPoints(s, title) ==
  LET sectionMatch == SectionContent(s, title)
  IN IF sectionMatch = <<>> THEN <<>>
     ELSE SelectSeq(Map(CleanBullet, BulletMatches(sectionMatch[1], 1)), KeepBullet)

-----------------------------------------------------------------------------
(* combineAllResults *)

FieldNames == {"name", "professor", "email", "meetingDays", "officeHours"}

\* the label whose presence content.includes tests; the pattern adds a space
FieldLabel ==
  [name |-> <<"C", "o", "u", "r", "s", "e", " ", "N", "a", "m", "e", ":">>, professor |-> <<"P", "r", "o", "f", "e", "s", "s", "o", "r", ":">>, email |-> <<"E", "m", "a", "i", "l", ":">>,
   meetingDays |-> <<"M", "e", "e", "t", "i", "n", "g", " ", "D", "a", "y", "s", ":">>, officeHours |-> <<"O", "f", "f", "i", "c", "e", " ", "H", "o", "u", "r", "s", ":">>]

NotLineEnd(s) == {s[k] : k \in 1..Len(s)} \ {"\n", BULLET}

\* content.match(/LABEL ([^\n•]+)/): match[1] of the leftmost match, <<>> if none
LabelMatch(s, label) ==
  LET lead == label \o <<" ">>
      hits == {i \in 1..Len(s) : /\ MatchAt(s, i, lead)
                                 /\ i + Len(lead) <= Len(s)
                                 /\ s[i + Len(lead)] \notin {"\n", BULLET}}
  IN IF hits = {} THEN <<>>
     ELSE SubSeq(s, MinOf(hits) + Len(lead),
                 RunEnd(s, MinOf(hits) + Len(lead), NotLineEnd(s)) - 1)

\* a guard that lets every page store its value
FieldIsAlwaysFree(current) == TRUE

\* the guard of one course field: nothing is stored over a value already found
FieldIsFree(current) == current = <<>>

\* one "if (content.includes(LABEL) && !courseInfo.f) {...}" statement: the new value of the field
MergeField(current, s, label) ==
  IF includes(s, label) /\ FieldIsFree(current)
  THEN LET match == LabelMatch(s, label)
       IN IF match # <<>> /\ ~includes(match, <<"N", "o", "t", " ", "s", "p", "e", "c", "i", "f", "i", "e", "d">>) THEN trim(match) ELSE current
  ELSE current

\* a test that takes every item for new
IsAlwaysNew(list, item) == TRUE

\* the test of "if (!list.includes(item)) list.push(item)"
IsNewItem(list, item) == \A k \in 1..Len(list) : list[k] # item

\* newItems.forEach(item => { if (!list.includes(item)) list.push(item); })
RECURSIVE AddUnique(_, _)
AddUnique(list, items) ==
  IF items = <<>> THEN list
  ELSE AddUnique(IF IsNewItem(list, Head(items)) THEN Append(list, Head(items)) ELSE list,
                 Tail(items))

RECURSIVE Join(_, _)
Join(lines, sep) ==
  IF lines = <<>> THEN <<>>
  ELSE IF Len(lines) = 1 THEN lines[1]
  ELSE lines[1] \o sep \o Join(Tail(lines), sep)

BulletLine(item) == <<BULLET, " ">> \o item

\* ${list.length > 0 ? list.map(x => `• ${x}`).join('\n') : '• Not specified in document'}
BulletBlock(list) ==
  IF Len(list) > 0 THEN Join(Map(BulletLine, list), <<"\n">>)
  ELSE <<BULLET, " ">> \o PLACEHOLDER

\* ${courseInfo.f || 'Not specified'}
OrNotSpecified(v) == IF v # <<>> THEN v ELSE <<"N", "o", "t", " ", "s", "p", "e", "c", "i", "f", "i", "e", "d">>

\* the rule of 90 box-drawing characters
RuleLen == 90

RuleLine == [i \in 1..RuleLen |-> RULE]

\* the template literal combinedText
RenderSummary(ci, tests, deadlines, dates) ==
  <<"\n">> \o RuleLine \o <<"\n", "\n", "D83D", "DCDA", " ", "S", "Y", "L", "L", "A", "B", "U", "S", " ", "S", "U", "M", "M", "A", "R", "Y", "\n", "\n", "D83C", "DF93", " ", "C", "O", "U", "R", "S", "E", " ", "I", "N", "F", "O", "R", "M", "A", "T", "I", "O", "N", "\n">>
  \o <<BULLET, " ", "C", "o", "u", "r", "s", "e", ":", " ">> \o OrNotSpecified(ci.name) \o <<"\n">>
  \o <<BULLET, " ", "P", "r", "o", "f", "e", "s", "s", "o", "r", ":", " ">> \o OrNotSpecified(ci.professor) \o <<"\n">>
  \o <<BULLET, " ", "E", "m", "a", "i", "l", ":", " ">> \o OrNotSpecified(ci.email) \o <<"\n">>
  \o <<BULLET, " ", "M", "e", "e", "t", "i", "n", "g", " ", "D", "a", "y", "s", ":", " ">> \o OrNotSpecified(ci.meetingDays) \o <<"\n">>
  \o <<BULLET, " ", "O", "f", "f", "i", "c", "e", " ", "H", "o", "u", "r", "s", ":", " ">> \o OrNotSpecified(ci.officeHours) \o <<"\n">>
  \o <<"\n", "D83D", "DCDD", " ", "E", "X", "A", "M", " ", "D", "A", "T", "E", "S", "\n">> \o BulletBlock(tests) \o <<"\n">>
  \o <<"\n", "D83D", "DCCB", " ", "A", "S", "S", "I", "G", "N", "M", "E", "N", "T", " ", "D", "E", "A", "D", "L", "I", "N", "E", "S", "\n">> \o BulletBlock(deadlines) \o <<"\n">>
  \o <<"\n", "D83D", "DCC5", " ", "I", "M", "P", "O", "R", "T", "A", "N", "T", " ", "D", "A", "T", "E", "S", "\n">> \o BulletBlock(AddUnique(<<>>, dates)) \o <<"\n">>
  \o <<"\n">> \o RuleLine \o <<"\n">>

-----------------------------------------------------------------------------
(* parseSyllabusData, extractField, extractAssignments *)

\* the three patterns differ in what precedes the field name
FieldPrefixes == <<<<>>, <<"D83D", "DCDA">>, <<"D83C", "DF93">>>>

\* in the template literal `[:\s]*` the escape \s is the letter s, so the
\* class is [:s], and under flag i it also holds S
ColonOrS == {":", "s", "S"}

\* PREFIX\s*fieldName[:s]*([^\n•]+) tried at index i: <<from, to>> of the
\* capture group, <<>> if there is no match at i
FieldCaptureAt(s, i, prefix, fieldName) ==
  IF ~MatchAt(s, i, prefix) THEN <<>>
  ELSE LET a == IF prefix = <<>> THEN i ELSE RunEnd(s, i + Len(prefix), Whitespace)
           b == a + Len(fieldName)
       IN IF ~MatchAtI(s, a, fieldName) THEN <<>>
          ELSE LET c == RunEnd(s, b, ColonOrS)
               IN IF c <= Len(s) /\ s[c] \notin {"\n", BULLET}
                  THEN <<c, RunEnd(s, c, NotLineEnd(s)) - 1>>
                  ELSE IF c > b THEN <<c - 1, c - 1>>
                  ELSE <<>>

\* text.match(patterns[p]): match[1] of the leftmost match, <<>> if none
FieldMatch(s, p, fieldName) ==
  LET hits == {i \in 1..Len(s) : FieldCaptureAt(s, i, FieldPrefixes[p], fieldName) # <<>>}
  IN IF hits = {} THEN <<>>
     ELSE LET cap == FieldCaptureAt(s, MinOf(hits), FieldPrefixes[p], fieldName)
          IN SubSeq(s, cap[1], cap[2])

\* match[1].trim().replace(/^•\s*/, '')
FieldValue(m) ==
  IF trim(m) # <<>> /\ trim(m)[1] = BULLET
  THEN SubSeq(trim(m), RunEnd(trim(m), 2, Whitespace), Len(trim(m)))
  ELSE trim(m)

\* the value returned for the first pattern that matches; <<>> stands for
\* null and for the empty string, which the callers do not tell apart
RECURSIVE extractFieldFrom(_, _, _)
extractFieldFrom(s, p, fieldName) ==
  IF p > 3 THEN <<>>
  ELSE LET match == FieldMatch(s, p, fieldName)
       IN IF match # <<>> THEN FieldValue(match) ELSE extractFieldFrom(s, p + 1, fieldName)

extractField(s, fieldName) == extractFieldFrom(s, 1, fieldName)

\* a || b
Or(a, b) == IF a # <<>> THEN a ELSE b

\* the section names extractAssignments scans, in its order
sections ==
  <<<<"T", "E", "S", "T", " ", "D", "A", "T", "E", "S">>, <<"A", "S", "S", "I", "G", "N", "M", "E", "N", "T", " ", "D", "E", "A", "D", "L", "I", "N", "E">>, <<"I", "m", "p", "o", "r", "t", "a", "n", "t", " ", "D", "a", "t", "e", "s">>, <<"E", "X", "A", "M", "S">>, <<"A", "S", "S", "I", "G", "N", "M", "E", "N", "T", "S">>>>

\* sectionMatch[0] of new RegExp(`${section}[\\s\\S]*?(?=\\n\\s*[glyphs]|$)`, 'i'),
\* as <<text>>, or <<>> when the section name does not occur
SectionMatch(s, section) ==
  LET heads == {i \in 1..Len(s) : MatchAtI(s, i, section)}
  IN IF heads = {} THEN <<>>
     ELSE <<SubSeq(s, MinOf(heads), LazyEnd(s, MinOf(heads) + Len(section)) - 1)>>

\* the bullets of one section that are handed to parseAssignmentBullet
SectionBullets(s, section) ==
  LET sectionMatch == SectionMatch(s, section)
  IN IF sectionMatch = <<>> THEN <<>>
     ELSE SelectSeq(Map(CleanBullet, BulletMatches(sectionMatch[1], 1)),
                    LAMBDA b : b # <<>> /\ ~includes(b, PLACEHOLDER))

\* the loop over sections from index k on: the calls of parseAssignmentBullet
\* it makes, in order, each with its cleanBullet and its section
RECURSIVE extractAssignmentsFrom(_, _)
extractAssignmentsFrom(s, k) ==
  IF k > Len(sections) THEN <<>>
  ELSE LET bullets == SectionBullets(s, sections[k])
       IN [i \in 1..Len(bullets) |-> [cleanBullet |-> bullets[i], section |-> sections[k]]]
          \o extractAssignmentsFrom(s, k + 1)

\* assignments.push(parseAssignmentBullet(cleanBullet, section)) for each call
PushAssignments(calls, tz, lenient) ==
  [i \in 1..Len(calls) |-> parseAssignmentBullet(calls[i].cleanBullet, calls[i].section, tz, lenient)]

extractAssignments(s, tz, lenient) == PushAssignments(extractAssignmentsFrom(s, 1), tz, lenient)

\* parseSyllabusData of a text: the courseData it returns
CourseDataOf(s) ==
  [course_name |-> Or(extractField(s, <<"C", "o", "u", "r", "s", "e", " ", "N", "a", "m", "e">>), <<"U", "n", "k", "n", "o", "w", "n", " ", "C", "o", "u", "r", "s", "e">>),
   professor_name |-> Or(extractField(s, <<"P", "r", "o", "f", "e", "s", "s", "o", "r", " ", "N", "a", "m", "e">>), <<"U", "n", "k", "n", "o", "w", "n", " ", "P", "r", "o", "f", "e", "s", "s", "o", "r">>),
   professor_email |-> Or(extractField(s, <<"P", "r", "o", "f", "e", "s", "s", "o", "r", " ", "E", "m", "a", "i", "l">>), <<>>),
   meeting_days |-> Or(extractField(s, <<"M", "e", "e", "t", "i", "n", "g", " ", "D", "a", "y", "s">>), <<>>),
   office_hours |-> Or(extractField(s, <<"O", "f", "f", "i", "c", "e", " ", "H", "o", "u", "r", "s">>), <<>>),
   syllabus_text |-> s]

-----------------------------------------------------------------------------
(* JavaScript values, JSON.parse and JSON.stringify                        *)
(*                                                                         *)
(* A value is a record of one shape: kind is its type, text the code units *)
(* of a string, num the value of a number or boolean, items the elements   *)
(* of an array, props the properties of an object in insertion order.      *)
(* Of JSON, integers, strings without escapes, literals, arrays and        *)
(* objects are read; the replies drawn below stay inside that fragment.    *)

JSValue(kind, text, num, items, props) ==
  [kind |-> kind, text |-> text, num |-> num, items |-> items, props |-> props]

undefined == JSValue("undefined", <<>>, 0, <<>>, <<>>)

null == JSValue("null", <<>>, 0, <<>>, <<>>)

String(t) == JSValue("string", t, 0, <<>>, <<>>)

Number(n) == JSValue("number", <<>>, n, <<>>, <<>>)

Boolean(b) == JSValue("boolean", <<>>, IF b THEN 1 ELSE 0, <<>>, <<>>)

Array(items) == JSValue("array", <<>>, 0, items, <<>>)

Object(props) == JSValue("object", <<>>, 0, <<>>, props)

\* v[key]: the property of an object (the last one written under the key);
\* undefined on every other value that has properties at all
Get(v, key) ==
  LET at == {i \in 1..Len(v.props) : v.props[i].key = key}
  IN IF v.kind = "object" /\ at # {} THEN v.props[MaxOf(at)].value ELSE undefined

\* ToBoolean(v), as used by || and by if
Truthy(v) ==
  CASE v.kind \in {"undefined", "null"} -> FALSE
    [] v.kind = "string" -> v.text # <<>>
    [] v.kind \in {"number", "boolean"} -> v.num # 0
    [] OTHER -> TRUE

\* a || b
OrElse(a, b) == IF Truthy(a) THEN a ELSE b

\* reading a property of null or undefined throws a TypeError
HasProperties(v) == v.kind \notin {"undefined", "null"}

JsonWhitespace == {" ", "\n", "\t"}

\* the code units that may stand unescaped inside a JSON string
JsonStringChars(s) == {s[k] : k \in 1..Len(s)} \ {"\"", "\\", "\n", "\t"}

NoParse == [ok |-> FALSE, value |-> undefined, next |-> 0]

Parsed(v, next) == [ok |-> TRUE, value |-> v, next |-> next]

\* a JSON string that starts with the quote at index i
ParseString(s, i) ==
  LET e == RunEnd(s, i + 1, JsonStringChars(s))
  IN IF e <= Len(s) /\ s[e] = "\"" THEN Parsed(String(SubSeq(s, i + 1, e - 1)), e + 1)
     ELSE NoParse

\* a JSON integer that starts at index i (no leading zero, optional minus)
ParseNumber(s, i) ==
  LET d == IF s[i] = "-" THEN i + 1 ELSE i
      e == RunEnd(s, d, Digits)
  IN IF e = d \/ (s[d] = "0" /\ e > d + 1) THEN NoParse
     ELSE Parsed(Number((IF d > i THEN -1 ELSE 1) * NumVal(SubSeq(s, d, e - 1))), e)

RECURSIVE ParseValue(_, _), ParseElements(_, _, _), ParseMembers(_, _, _)

\* a JSON value that starts, after white space, at index i
ParseValue(s, i) ==
  LET a == RunEnd(s, i, JsonWhitespace)
  IN IF a > Len(s) THEN NoParse
     ELSE IF MatchAt(s, a, <<"n", "u", "l", "l">>) THEN Parsed(null, a + 4)
     ELSE IF MatchAt(s, a, <<"t", "r", "u", "e">>) THEN Parsed(Boolean(TRUE), a + 4)
     ELSE IF MatchAt(s, a, <<"f", "a", "l", "s", "e">>) THEN Parsed(Boolean(FALSE), a + 5)
     ELSE IF s[a] = "\"" THEN ParseString(s, a)
     ELSE IF s[a] \in Digits \cup {"-"} THEN ParseNumber(s, a)
     ELSE IF s[a] = "[" THEN
       (LET b == RunEnd(s, a + 1, JsonWhitespace)
        IN IF b <= Len(s) /\ s[b] = "]" THEN Parsed(Array(<<>>), b + 1)
           ELSE ParseElements(s, b, <<>>))
     ELSE IF s[a] = "{" THEN
       (LET b == RunEnd(s, a + 1, JsonWhitespace)
        IN IF b <= Len(s) /\ s[b] = "}" THEN Parsed(Object(<<>>), b + 1)
           ELSE ParseMembers(s, b, <<>>))
     ELSE NoParse

\* the elements of an array from index i on, after the elements in acc
ParseElements(s, i, acc) ==
  LET r == ParseValue(s, i)
      b == RunEnd(s, r.next, JsonWhitespace)
  IN IF ~r.ok \/ b > Len(s) THEN NoParse
     ELSE IF s[b] = "," THEN ParseElements(s, b + 1, Append(acc, r.value))
     ELSE IF s[b] = "]" THEN Parsed(Array(Append(acc, r.value)), b + 1)
     ELSE NoParse

\* the members of an object from index i on, after the members in acc
ParseMembers(s, i, acc) ==
  LET a == RunEnd(s, i, JsonWhitespace)
      k == IF a <= Len(s) /\ s[a] = "\"" THEN ParseString(s, a) ELSE NoParse
      c == RunEnd(s, k.next, JsonWhitespace)
      r == ParseValue(s, c + 1)
      b == RunEnd(s, r.next, JsonWhitespace)
  IN IF ~k.ok \/ c > Len(s) \/ s[c] # ":" THEN NoParse
     ELSE IF ~r.ok \/ b > Len(s) THEN NoParse
     ELSE IF s[b] = "," THEN ParseMembers(s, b + 1, Append(acc, [key |-> k.value.text, value |-> r.value]))
     ELSE IF s[b] = "}" THEN Parsed(Object(Append(acc, [key |-> k.value.text, value |-> r.value])), b + 1)
     ELSE NoParse

\* JSON.parse(text): <<value>>, or <<>> when it throws a SyntaxError
JSONParse(s) ==
  LET r == ParseValue(s, 1)
  IN IF r.ok /\ RunEnd(s, r.next, JsonWhitespace) = Len(s) + 1 THEN <<r.value>> ELSE <<>>

\* the decimal digits of a natural number
RECURSIVE DigitsOf(_)
DigitsOf(n) ==
  IF n < 10 THEN <<DigitTable[n + 1]>> ELSE DigitsOf(n \div 10) \o <<DigitTable[(n % 10) + 1]>>

RECURSIVE JSONStringify(_), StringifyItems(_, _), StringifyProps(_, _)

\* JSON.stringify(v) of a value JSON.parse can return
JSONStringify(v) ==
  CASE v.kind = "null" -> <<"n", "u", "l", "l">>
    [] v.kind = "boolean" -> IF v.num = 1 THEN <<"t", "r", "u", "e">> ELSE <<"f", "a", "l", "s", "e">>
    [] v.kind = "number" -> IF v.num < 0 THEN <<"-">> \o DigitsOf(0 - v.num) ELSE DigitsOf(v.num)
    [] v.kind = "string" -> <<"\"">> \o v.text \o <<"\"">>
    [] v.kind = "array" -> <<"[">> \o StringifyItems(v.items, 1) \o <<"]">>
    [] v.kind = "object" -> <<"{">> \o StringifyProps(v, 1) \o <<"}">>

StringifyItems(items, i) ==
  IF i > Len(items) THEN <<>>
  ELSE (IF i > 1 THEN <<",">> ELSE <<>>) \o JSONStringify(items[i]) \o StringifyItems(items, i + 1)

\* the properties in insertion order, each key once with its last value
StringifyProps(v, i) ==
  IF i > Len(v.props) THEN <<>>
  ELSE IF \E j \in 1..(i - 1) : v.props[j].key = v.props[i].key THEN StringifyProps(v, i + 1)
  ELSE (IF i > 1 THEN <<",">> ELSE <<>>)
       \o <<"\"">> \o v.props[i].key \o <<"\"", ":">> \o JSONStringify(Get(v, v.props[i].key))
       \o StringifyProps(v, i + 1)

-----------------------------------------------------------------------------
(* parseSyllabusData of the worker, which reads the parsed JSON reply *)

\* the worker's parseSyllabusData(aiResponse): <<[courseData, assignments]>>,
\* or <<>> when reading aiResponse.course_name throws a TypeError
parseSyllabusDataJSON(v) ==
  IF ~HasProperties(v) THEN <<>>
  ELSE <<[courseData |->
            [course_name |-> OrElse(Get(v, <<"c", "o", "u", "r", "s", "e", "_", "n", "a", "m", "e">>), String(<<"U", "n", "k", "n", "o", "w", "n", " ", "C", "o", "u", "r", "s", "e">>)),
             professor_name |-> OrElse(Get(v, <<"p", "r", "o", "f", "e", "s", "s", "o", "r", "_", "n", "a", "m", "e">>), String(<<"U", "n", "k", "n", "o", "w", "n", " ", "P", "r", "o", "f", "e", "s", "s", "o", "r">>)),
             professor_email |-> OrElse(Get(v, <<"p", "r", "o", "f", "e", "s", "s", "o", "r", "_", "e", "m", "a", "i", "l">>), null),
             meeting_days |-> OrElse(Get(v, <<"m", "e", "e", "t", "i", "n", "g", "_", "d", "a", "y", "s">>), null),
             office_hours |-> OrElse(Get(v, <<"o", "f", "f", "i", "c", "e", "_", "h", "o", "u", "r", "s">>), null),
             syllabus_text |-> OrElse(Get(v, <<"p", "l", "a", "i", "n", "_", "t", "e", "x", "t">>), String(JSONStringify(v)))],
          assignments |->
            IF Get(v, <<"a", "s", "s", "i", "g", "n", "m", "e", "n", "t", "s">>).kind = "array" THEN Get(v, <<"a", "s", "s", "i", "g", "n", "m", "e", "n", "t", "s">>).items ELSE <<>>]>>

-----------------------------------------------------------------------------
(* Specification of parseAssignmentBullet over a set of bullet lines *)

LineMidterm == <<"M", "i", "d", "t", "e", "r", "m", " ", "M", "a", "r", "c", "h", " ", "1", "5", ",", " ", "2", "0", "2", "4", " ", "(", "r", "e", "s", "c", "h", "e", "d", "u", "l", "e", " ", "3", "/", "2", "0", "/", "2", "0", "2", "4", ")">>
LineFinalExam == <<"F", "i", "n", "a", "l", " ", "E", "x", "a", "m", " ", "d", "u", "e", " ", "D", "e", "c", "e", "m", "b", "e", "r", " ", "1", "2", ",", " ", "2", "0", "2", "4">>
LineHomework2 == <<"H", "o", "m", "e", "w", "o", "r", "k", " ", "2", " ", "D", "u", "e", ":", " ", "O", "c", "t", "o", "b", "e", "r", " ", "8", ",", " ", "2", "0", "2", "4">>
LineWeek3 == <<"W", "e", "e", "k", " ", "3", ":", " ", "C", "h", "a", "p", "t", "e", "r", " ", "5", "-", "6">>
LineBadNumeric == <<"E", "s", "s", "a", "y", ":", " ", "1", "3", "/", "4", "5", "/", "2", "0", "2", "4">>
LineBadThenGood == <<"1", "3", "/", "4", "5", "/", "2", "0", "2", "4", " ", "o", "r", " ", "M", "a", "r", "c", "h", " ", "1", "5">>
LineDashed == <<"Q", "u", "i", "z", " ", "3", "-", "1", "5", "-", "2", "0", "2", "4">>
LineDateOnly == <<"M", "a", "r", "c", "h", " ", "1", ",", " ", "2", "0", "2", "4">>
LineNewYear == <<"L", "a", "b", " ", "r", "e", "p", "o", "r", "t", " ", "1", "/", "1", "/", "2", "0", "2", "4">>

BulletLines ==
  { LineMidterm, LineFinalExam, LineHomework2, LineWeek3, LineBadNumeric,
    LineBadThenGood, LineDashed, LineDateOnly, LineNewYear,
    <<"R", "e", "a", "d", "i", "n", "g", " ", "p", "r", "o", "j", "e", "c", "t", " ", "q", "u", "i", "z">>, <<"P", "r", "o", "j", "e", "c", "t", " ", "Q", "u", "i", "z">>, <<"H", "o", "m", "e", "w", "o", "r", "k", " ", "r", "e", "a", "d", "i", "n", "g">>,
    <<"C", "o", "n", "t", "e", "s", "t", " ", "e", "n", "t", "r", "y">>, <<"R", "E", "A", "D", "I", "N", "G", " ", "R", "e", "s", "p", "o", "n", "s", "e">>, <<"P", "o", "p", " ", "q", "u", "i", "z">>, <<"O", "f", "f", "i", "c", "e", " ", "p", "a", "r", "t", "y">>,
    <<"A", "s", "s", "i", "g", "n", "m", "e", "n", "t", ":", " ", "p", "r", "o", "j", "e", "c", "t", " ", "p", "l", "a", "n">> }

\* the time zone belongs to the process, not to the program: the model reads
\* it, and the behaviour of the date parser, when a call converts its dates
TzOffsets == (0 - MaxTzHours)..MaxTzHours

EmptyCourseInfo ==
  [name |-> <<>>, professor |-> <<>>, email |-> <<>>, meetingDays |-> <<>>, officeHours |-> <<>>]

NoCourseData ==
  [course_name |-> <<>>, professor_name |-> <<>>, professor_email |-> <<>>,
   meeting_days |-> <<>>, office_hours |-> <<>>, syllabus_text |-> <<>>]

IdleEnv == tzOffset = 0 /\ lenientDates = FALSE

IdleBullet == bulletIn = <<>> /\ sectionIn = <<>> /\ assignment = <<>>

IdleExtract == content = <<>> /\ sectionTitle = <<>> /\ extracted = <<>> /\ layout = <<>>

IdleMerge ==
  /\ allPageData = <<>>
  /\ pageIdx = 0
  /\ courseInfo = EmptyCourseInfo
  /\ testDates = <<>>
  /\ assignmentDeadlines = <<>>
  /\ weeklyReadings = <<>>
  /\ majorDeliverables = <<>>
  /\ importantDates = <<>>

IdleParse == aiResponse = <<>> /\ courseData = NoCourseData /\ assignments = <<>>

IdleSave ==
  /\ courseId = 0
  /\ saveIdx = 0
  /\ attempted = <<>>
  /\ inserted = <<>>
  /\ savedAssignments = <<>>

IdlePages == files = <<>> /\ scratch = {} /\ keyPages = <<>> /\ pageCalls = <<>>

IdleQueue == jobs = <<>> /\ workers = <<>> /\ courseRows = <<>> /\ terminalWrites = <<>>

IdlePool == pool = "null" /\ connection = "undefined" /\ dbCalls = <<>>

IdleRest == IdlePages /\ IdleQueue /\ IdlePool

IdleFlow ==
  /\ proc = "none"
  /\ activeDatabase = "null"
  /\ healthRes = <<>>
  /\ reqFile = <<>>
  /\ fileOnDisk = FALSE
  /\ pdfText = "none"
  /\ aiValue = <<>>
  /\ IdleSave
  /\ res = <<>>
  /\ jobRow = [status |-> "none", result |-> <<>>, error_message |-> <<>>]
  /\ effects = {}

InitBullet ==
  /\ IdleRest
  /\ pc = "parseAssignmentBullet"
  /\ bulletIn \in BulletLines
  /\ sectionIn \in {sections[i] : i \in 1..Len(sections)}
  /\ assignment = <<>>
  /\ IdleEnv /\ IdleExtract /\ IdleMerge /\ IdleParse /\ IdleFlow

ParseBullet ==
  /\ pc = "parseAssignmentBullet"
  /\ \E tz \in TzOffsets, lenient \in BOOLEAN :
       /\ tzOffset' = tz
       /\ lenientDates' = lenient
       /\ assignment' = <<parseAssignmentBullet(bulletIn, sectionIn, tz, lenient)>>
  /\ pc' = "returned"
  /\ UNCHANGED <<restVars, flowVars, bulletIn, sectionIn, extractVars, mergeVars, parseVars>>

NextBullet == ParseBullet

SpecBullet == InitBullet /\ [][NextBullet]_vars

-----------------------------------------------------------------------------
(* Specification of extractBulletPoints over laid-out response texts *)

\* the six sections of the response format: glyph and header text
SectionKinds ==
  <<[glyph |-> <<"D83C", "DF93">>, title |-> <<"C", "O", "U", "R", "S", "E", " ", "I", "N", "F", "O", "R", "M", "A", "T", "I", "O", "N">>],
    [glyph |-> <<"D83D", "DCDD">>, title |-> <<"T", "E", "S", "T", " ", "D", "A", "T", "E", "S">>],
    [glyph |-> <<"D83D", "DCCB">>, title |-> <<"A", "S", "S", "I", "G", "N", "M", "E", "N", "T", " ", "D", "E", "A", "D", "L", "I", "N", "E", "S">>],
    [glyph |-> <<"D83D", "DCDA">>, title |-> <<"W", "E", "E", "K", "L", "Y", " ", "R", "E", "A", "D", "I", "N", "G", "S">>],
    [glyph |-> <<"D83C", "DFAF">>, title |-> <<"M", "A", "J", "O", "R", " ", "D", "E", "L", "I", "V", "E", "R", "A", "B", "L", "E", "S">>],
    [glyph |-> <<"D83D", "DCC5">>, title |-> <<"I", "M", "P", "O", "R", "T", "A", "N", "T", " ", "D", "A", "T", "E", "S">>]>>

\* the section titles combineAllResults passes to extractBulletPoints
ExtractedTitles == {SectionKinds[k].title : k \in 2..6}

\* the bullets written under a section of the given kind, in three variants;
\* the third has bullets of 5 and 6 characters, bullets followed by blanks
\* and a bullet that repeats the header of its own section
KindBullets(kind, variant) ==
  CASE kind = 1 -> IF variant = 1 THEN <<<<"C", "o", "u", "r", "s", "e", " ", "N", "a", "m", "e", ":", " ", "C", "S", "1", "0", "1">>, <<"P", "r", "o", "f", "e", "s", "s", "o", "r", ":", " ", "D", "r", ".", " ", "A">>>>
                   ELSE IF variant = 2 THEN <<<<"C", "o", "u", "r", "s", "e", " ", "N", "a", "m", "e", ":", " ", "N", "o", "t", " ", "s", "p", "e", "c", "i", "f", "i", "e", "d", " ", "i", "n", " ", "d", "o", "c", "u", "m", "e", "n", "t">>>>
                   ELSE <<<<"E", "m", "a", "i", "l", ":", " ", "a", "@", "u", ".", "e", "d", "u">>>>
    [] kind = 2 -> IF variant = 1 THEN <<<<"M", "i", "d", "t", "e", "r", "m", " ", "O", "c", "t", " ", "1", "5">>, <<"F", "i", "n", "a", "l", " ", "D", "e", "c", " ", "1", "2">>>>
                   ELSE IF variant = 2 THEN <<<<"O", "c", "t", " ", "1">>, <<"O", "c", "t", " ", "1", "5">>>>
                   ELSE <<<<"T", "E", "S", "T", " ", "D", "A", "T", "E", "S">>, <<"Q", "u", "i", "z", " ", "1", " ">>, <<"L", "a", "b", " ", "2", " ", " ">>, <<"E", "x", "a", "m", " ", "2", " ", "N", "o", "v", " ", "3">>>>
    [] kind = 3 -> IF variant = 1 THEN <<<<"H", "o", "m", "e", "w", "o", "r", "k", " ", "1", " ", "S", "e", "p", " ", "2", "5">>>>
                   ELSE IF variant = 2 THEN <<<<"N", "o", "t", " ", "s", "p", "e", "c", "i", "f", "i", "e", "d", " ", "i", "n", " ", "d", "o", "c", "u", "m", "e", "n", "t">>>>
                   ELSE <<<<"E", "s", "s", "a", "y">>, <<"A", "S", "S", "I", "G", "N", "M", "E", "N", "T", " ", "D", "E", "A", "D", "L", "I", "N", "E", "S">>, <<"E", "s", "s", "a", "y", " ", "2">>>>
    [] kind = 4 -> IF variant = 1 THEN <<<<"C", "h", "a", "p", "t", "e", "r", " ", "1", "-", "2">>, <<"C", "h", "a", "p", "t", "e", "r", " ", "3", "-", "4">>>>
                   ELSE IF variant = 2 THEN <<<<"C", "h", ".", " ", "5">>, <<"R", "e", "a", "d", " ", "T", "E", "S", "T", " ", "D", "A", "T", "E", "S", " ", "h", "a", "n", "d", "o", "u", "t">>>>
                   ELSE <<<<"W", "E", "E", "K", "L", "Y", " ", "R", "E", "A", "D", "I", "N", "G", "S">>, <<"C", "h", " ", "1", "-", "2">>, <<"C", "h", " ", "1", "2">>>>
    [] kind = 5 -> IF variant = 1 THEN <<<<"T", "e", "r", "m", " ", "p", "a", "p", "e", "r">>>>
                   ELSE IF variant = 2 THEN <<<<"D", "e", "m", "o", " ", "d", "a", "y">>, <<"P", "o", "s", "t", "e", "r">>>>
                   ELSE <<<<"D", "e", "m", "o", " ", " ">>, <<"M", "A", "J", "O", "R", " ", "D", "E", "L", "I", "V", "E", "R", "A", "B", "L", "E", "S">>>>
    [] kind = 6 -> IF variant = 1 THEN <<<<"F", "a", "l", "l", " ", "B", "r", "e", "a", "k", " ", "O", "c", "t", " ", "1", "0">>>>
                   ELSE IF variant = 2 THEN <<<<"A", "d", "d", "/", "d", "r", "o", "p", " ", "S", "e", "p", " ", "5">>, <<"N", "o", "t", " ", "s", "p", "e", "c", "i", "f", "i", "e", "d", " ", "i", "n", " ", "d", "o", "c", "u", "m", "e", "n", "t">>>>
                   ELSE <<<<"O", "c", "t", " ", "1", "0">>, <<"I", "M", "P", "O", "R", "T", "A", "N", "T", " ", "D", "A", "T", "E", "S">>, <<"N", "o", "v", " ", "1">>>>

\* one well-formed section: the header line and one line per bullet
SectionText(kind, variant) ==
  SectionKinds[kind].glyph \o <<" ">> \o SectionKinds[kind].title \o <<"\n">>
    \o Join(Map(BulletLine, KindBullets(kind, variant)), <<"\n">>)

\* the sections in order, gap newlines between a section and the next header
LayoutText(lay) ==
  Join([i \in 1..Len(lay.kinds) |-> SectionText(lay.kinds[i], lay.variant)],
       [i \in 1..lay.gap |-> "\n"])

Layouts ==
  {[kinds |-> ks, variant |-> v, gap |-> g] :
     ks \in UNION {[1..n -> 1..6] : n \in 1..MaxSections}, v \in {1, 2, 3}, g \in {1, 2}}

InitExtract ==
  /\ IdleRest
  /\ pc = "extractBulletPoints"
  /\ layout \in Layouts
  /\ content = LayoutText(layout)
  /\ sectionTitle \in ExtractedTitles
  /\ extracted = <<>>
  /\ IdleEnv /\ IdleBullet /\ IdleMerge /\ IdleParse /\ IdleFlow

ExtractSection ==
  /\ pc = "extractBulletPoints"
  /\ extracted' = extractBulletPoints(content, sectionTitle)
  /\ pc' = "extracted"
  /\ UNCHANGED <<restVars, flowVars, envVars, bulletVars, content, sectionTitle, layout, mergeVars, parseVars>>

NextExtract == ExtractSection

SpecExtract == InitExtract /\ [][NextExtract]_vars

-----------------------------------------------------------------------------
(* Specification of the analysis of one document: the page results are     *)
(* combined (several pages) or taken as they are (one page), and the       *)
(* resulting text is parsed by parseSyllabusData                           *)

PageA ==
  <<"D83C", "DF93", " ", "C", "O", "U", "R", "S", "E", " ", "I", "N", "F", "O", "R", "M", "A", "T", "I", "O", "N", "\n", BULLET, " ", "C", "o", "u", "r", "s", "e", " ", "N", "a", "m", "e", ":", " ", "C", "S", "1", "0", "1", "\n", BULLET, " ", "P", "r", "o", "f", "e", "s", "s", "o", "r", ":", " ", "D", "r", ".", " ", "A", "\n", BULLET, " ", "E", "m", "a", "i", "l", ":", " ", "a", "@", "u", ".", "e", "d", "u", "\n", BULLET, " ", "M", "e", "e", "t", "i", "n", "g", " ", "D", "a", "y", "s", ":", " ", "M", "W", "F", " ", "1", "0", "a", "m", "\n", BULLET, " ", "O", "f", "f", "i", "c", "e", " ", "H", "o", "u", "r", "s", ":", " ", "T", "u", "e", " ", "2", "p", "m", "\n", "\n", "D83D", "DCDD", " ", "T", "E", "S", "T", " ", "D", "A", "T", "E", "S", "\n", BULLET, " ", "M", "i", "d", "t", "e", "r", "m", " ", "O", "c", "t", " ", "1", "5", "\n", BULLET, " ", "F", "i", "n", "a", "l", " ", "D", "e", "c", " ", "1", "2", "\n", "\n", "D83D", "DCCB", " ", "A", "S", "S", "I", "G", "N", "M", "E", "N", "T", " ", "D", "E", "A", "D", "L", "I", "N", "E", "S", "\n", BULLET, " ", "H", "o", "m", "e", "w", "o", "r", "k", " ", "1", " ", "S", "e", "p", " ", "2", "5", "\n", "\n", "D83D", "DCC5", " ", "I", "M", "P", "O", "R", "T", "A", "N", "T", " ", "D", "A", "T", "E", "S", "\n", BULLET, " ", "H", "o", "m", "e", "w", "o", "r", "k", " ", "1", " ", "S", "e", "p", " ", "2", "5", "\n", BULLET, " ", "H", "o", "m", "e", "w", "o", "r", "k", " ", "1", " ", "S", "e", "p", " ", "2", "5">>

PageB ==
  <<"D83C", "DF93", " ", "C", "O", "U", "R", "S", "E", " ", "I", "N", "F", "O", "R", "M", "A", "T", "I", "O", "N", "\n", BULLET, " ", "C", "o", "u", "r", "s", "e", " ", "N", "a", "m", "e", ":", " ", "M", "a", "t", "h", " ", "2", "0", "0", "\n", BULLET, " ", "P", "r", "o", "f", "e", "s", "s", "o", "r", ":", " ", "D", "r", ".", " ", "B", "\n", BULLET, " ", "E", "m", "a", "i", "l", ":", " ", "b", "@", "u", ".", "e", "d", "u", "\n", BULLET, " ", "M", "e", "e", "t", "i", "n", "g", " ", "D", "a", "y", "s", ":", " ", "T", "T", "h", " ", "1", "p", "m", "\n", BULLET, " ", "O", "f", "f", "i", "c", "e", " ", "H", "o", "u", "r", "s", ":", " ", "F", "r", "i", " ", "9", "a", "m", "\n", "\n", "D83D", "DCDD", " ", "T", "E", "S", "T", " ", "D", "A", "T", "E", "S", "\n", BULLET, " ", "F", "i", "n", "a", "l", " ", "D", "e", "c", " ", "1", "2", "\n", BULLET, " ", "E", "x", "a", "m", " ", "1", " ", "S", "e", "p", " ", "3", "0", "\n", "\n", "D83D", "DCC5", " ", "I", "M", "P", "O", "R", "T", "A", "N", "T", " ", "D", "A", "T", "E", "S", "\n", BULLET, " ", "F", "a", "l", "l", " ", "B", "r", "e", "a", "k", " ", "O", "c", "t", " ", "1", "0">>

\* a page on which the document says nothing about the course
PageUnspecified ==
  <<"D83C", "DF93", " ", "C", "O", "U", "R", "S", "E", " ", "I", "N", "F", "O", "R", "M", "A", "T", "I", "O", "N", "\n", BULLET, " ", "C", "o", "u", "r", "s", "e", " ", "N", "a", "m", "e", ":", " ", "N", "o", "t", " ", "s", "p", "e", "c", "i", "f", "i", "e", "d", " ", "i", "n", " ", "d", "o", "c", "u", "m", "e", "n", "t", "\n", BULLET, " ", "P", "r", "o", "f", "e", "s", "s", "o", "r", ":", " ", "N", "o", "t", " ", "s", "p", "e", "c", "i", "f", "i", "e", "d", " ", "i", "n", " ", "d", "o", "c", "u", "m", "e", "n", "t", "\n", BULLET, " ", "E", "m", "a", "i", "l", ":", " ", "N", "o", "t", " ", "s", "p", "e", "c", "i", "f", "i", "e", "d", " ", "i", "n", " ", "d", "o", "c", "u", "m", "e", "n", "t", "\n", BULLET, " ", "M", "e", "e", "t", "i", "n", "g", " ", "D", "a", "y", "s", ":", " ", "N", "o", "t", " ", "s", "p", "e", "c", "i", "f", "i", "e", "d", " ", "i", "n", " ", "d", "o", "c", "u", "m", "e", "n", "t", "\n", BULLET, " ", "O", "f", "f", "i", "c", "e", " ", "H", "o", "u", "r", "s", ":", " ", "N", "o", "t", " ", "s", "p", "e", "c", "i", "f", "i", "e", "d", " ", "i", "n", " ", "d", "o", "c", "u", "m", "e", "n", "t", "\n", "\n", "D83D", "DCDD", " ", "T", "E", "S", "T", " ", "D", "A", "T", "E", "S", "\n", BULLET, " ", "N", "o", "t", " ", "s", "p", "e", "c", "i", "f", "i", "e", "d", " ", "i", "n", " ", "d", "o", "c", "u", "m", "e", "n", "t", "\n", "\n", "D83D", "DCDA", " ", "W", "E", "E", "K", "L", "Y", " ", "R", "E", "A", "D", "I", "N", "G", "S", "\n", BULLET, " ", "C", "h", "a", "p", "t", "e", "r", " ", "1", "-", "2", "\n", "\n", "D83C", "DFAF", " ", "M", "A", "J", "O", "R", " ", "D", "E", "L", "I", "V", "E", "R", "A", "B", "L", "E", "S", "\n", BULLET, " ", "T", "e", "r", "m", " ", "p", "a", "p", "e", "r">>

\* a page with a blank professor, a short placeholder and three sections
PagePartial ==
  <<BULLET, " ", "P", "r", "o", "f", "e", "s", "s", "o", "r", ":", " ", " ", "\n", BULLET, " ", "E", "m", "a", "i", "l", ":", " ", "N", "o", "t", " ", "s", "p", "e", "c", "i", "f", "i", "e", "d", "\n", BULLET, " ", "O", "f", "f", "i", "c", "e", " ", "H", "o", "u", "r", "s", ":", " ", "F", "r", "i", " ", "9", "a", "m", "\n", "\n", "D83D", "DCDA", " ", "W", "E", "E", "K", "L", "Y", " ", "R", "E", "A", "D", "I", "N", "G", "S", "\n", BULLET, " ", "C", "h", "a", "p", "t", "e", "r", " ", "3", "-", "4", "\n", BULLET, " ", "C", "h", "a", "p", "t", "e", "r", " ", "1", "-", "2", "\n", "\n", "D83C", "DFAF", " ", "M", "A", "J", "O", "R", " ", "D", "E", "L", "I", "V", "E", "R", "A", "B", "L", "E", "S", "\n", BULLET, " ", "T", "e", "r", "m", " ", "p", "a", "p", "e", "r", "\n", BULLET, " ", "D", "e", "m", "o", " ", "d", "a", "y", "\n", "\n", "D83D", "DCC5", " ", "I", "M", "P", "O", "R", "T", "A", "N", "T", " ", "D", "A", "T", "E", "S", "\n", BULLET, " ", "F", "a", "l", "l", " ", "B", "r", "e", "a", "k", " ", "O", "c", "t", " ", "1", "0", "\n", BULLET, " ", "A", "d", "d", "/", "d", "r", "o", "p", " ", "S", "e", "p", " ", "5">>

PageOct1 == <<"D83D", "DCDD", " ", "T", "E", "S", "T", " ", "D", "A", "T", "E", "S", "\n", BULLET, " ", "O", "c", "t", " ", "1">>

PageOct1Oct15 == <<"D83D", "DCDD", " ", "T", "E", "S", "T", " ", "D", "A", "T", "E", "S", "\n", BULLET, " ", "O", "c", "t", " ", "1", "\n", BULLET, " ", "O", "c", "t", " ", "1", "5">>

PageTexts == {PageA, PageB, PageUnspecified, PagePartial, PageOct1, PageOct1Oct15}

PageLists ==
  {[i \in 1..Len(texts) |-> [pageNumber |-> i, plain_text |-> texts[i]]] :
     texts \in UNION {[1..n -> PageTexts] : n \in 1..MaxPages}}

InitMerge ==
  /\ IdleRest
  /\ pc = "analyzeSyllabusWithOpenAI"
  /\ allPageData \in PageLists
  /\ pageIdx = 0
  /\ courseInfo = EmptyCourseInfo
  /\ testDates = <<>>
  /\ assignmentDeadlines = <<>>
  /\ weeklyReadings = <<>>
  /\ majorDeliverables = <<>>
  /\ importantDates = <<>>
  /\ IdleEnv /\ IdleBullet /\ IdleExtract /\ IdleParse /\ IdleFlow

\* a single page: the page's text is the analysis result
AnalyzeSinglePage ==
  /\ pc = "analyzeSyllabusWithOpenAI"
  /\ Len(allPageData) = 1
  /\ aiResponse' = allPageData[1].plain_text
  /\ pc' = "parseSyllabusData"
  /\ UNCHANGED <<restVars, flowVars, envVars, bulletVars, extractVars, mergeVars, courseData, assignments>>

\* several pages: combineAllResults is entered with empty accumulators
BeginCombine ==
  /\ pc = "analyzeSyllabusWithOpenAI"
  /\ Len(allPageData) > 1
  /\ pageIdx' = 1
  /\ courseInfo' = EmptyCourseInfo
  /\ testDates' = <<>>
  /\ assignmentDeadlines' = <<>>
  /\ weeklyReadings' = <<>>
  /\ majorDeliverables' = <<>>
  /\ importantDates' = <<>>
  /\ pc' = "combineAllResults"
  /\ UNCHANGED <<restVars, flowVars, envVars, bulletVars, extractVars, allPageData, parseVars>>

\* one iteration of allPageData.forEach
CombinePage ==
  /\ pc = "combineAllResults"
  /\ pageIdx <= Len(allPageData)
  /\ LET text == allPageData[pageIdx].plain_text
     IN /\ courseInfo' = [f \in FieldNames |-> MergeField(courseInfo[f], text, FieldLabel[f])]
        /\ testDates' = AddUnique(testDates, extractBulletPoints(text, <<"T", "E", "S", "T", " ", "D", "A", "T", "E", "S">>))
        /\ assignmentDeadlines' =
             AddUnique(assignmentDeadlines, extractBulletPoints(text, <<"A", "S", "S", "I", "G", "N", "M", "E", "N", "T", " ", "D", "E", "A", "D", "L", "I", "N", "E", "S">>))
        /\ weeklyReadings' = AddUnique(weeklyReadings, extractBulletPoints(text, <<"W", "E", "E", "K", "L", "Y", " ", "R", "E", "A", "D", "I", "N", "G", "S">>))
        /\ majorDeliverables' =
             AddUnique(majorDeliverables, extractBulletPoints(text, <<"M", "A", "J", "O", "R", " ", "D", "E", "L", "I", "V", "E", "R", "A", "B", "L", "E", "S">>))
        /\ importantDates' = AddUnique(importantDates, extractBulletPoints(text, <<"I", "M", "P", "O", "R", "T", "A", "N", "T", " ", "D", "A", "T", "E", "S">>))
  /\ pageIdx' = pageIdx + 1
  /\ UNCHANGED <<restVars, flowVars, pc, envVars, bulletVars, extractVars, allPageData, parseVars>>

\* after the last page: the summary text is rendered and returned
ReturnCombined ==
  /\ pc = "combineAllResults"
  /\ pageIdx > Len(allPageData)
  /\ aiResponse' = RenderSummary(courseInfo, testDates, assignmentDeadlines, importantDates)
  /\ pc' = "parseSyllabusData"
  /\ UNCHANGED <<restVars, flowVars, envVars, bulletVars, extractVars, mergeVars, courseData, assignments>>

\* parseSyllabusData(aiResponse.plain_text || aiResponse) on a non-empty text
ParseSyllabusData ==
  /\ pc = "parseSyllabusData"
  /\ aiResponse # <<>>
  /\ courseData' = CourseDataOf(aiResponse)
  /\ LET calls == extractAssignmentsFrom(aiResponse, 1)
     IN \E tz \in TzOffsets, lenient \in BOOLEAN :
          /\ tzOffset' = tz
          /\ lenientDates' = lenient
          /\ assignments' = PushAssignments(calls, tz, lenient)
  /\ pc' = "done"
  /\ UNCHANGED <<restVars, flowVars, bulletVars, extractVars, mergeVars, aiResponse>>

NextMerge ==
  \/ AnalyzeSinglePage
  \/ BeginCombine
  \/ CombinePage
  \/ ReturnCombined
  \/ ParseSyllabusData

SpecMerge == InitMerge /\ [][NextMerge]_vars

-----------------------------------------------------------------------------
(* Properties of combineAllResults (SpecMerge) *)

Range(s) == {s[i] : i \in 1..Len(s)}

NoDuplicates(s) == \A i, j \in 1..Len(s) : s[i] = s[j] => i = j

FirstIndex(s, x) == MinOf({i \in 1..Len(s) : s[i] = x})

\* combineAllResults is combining the pages, or has just returned
Combining == pc \in {"combineAllResults", "parseSyllabusData"} /\ Len(allPageData) > 1

\* the value page i yields for field f: the text after the first "LABEL " of
\* the page, trimmed, unless it is a placeholder (contains "Not specified")
PageYield(i, f) ==
  LET m == LabelMatch(allPageData[i].plain_text, FieldLabel[f])
  IN IF m = <<>> \/ includes(m, <<"N", "o", "t", " ", "s", "p", "e", "c", "i", "f", "i", "e", "d">>) THEN <<>> ELSE trim(m)

\* the value of the first of the pages 1..n that yields one, <<>> if none does
FirstYield(n, f) ==
  LET yielding == {i \in 1..n : PageYield(i, f) # <<>>}
  IN IF yielding = {} THEN <<>> ELSE PageYield(MinOf(yielding), f)

\* C1: after any number of pages each course field holds the value of the
\* first page, in list order, that yields a non-placeholder value for it;
\* pages A ("Dr. A") and B ("Dr. B") in this order merge to "Dr. A"
FirstWinsMerge ==
  Combining =>
    /\ \A f \in FieldNames : courseInfo[f] = FirstYield(pageIdx - 1, f)
    /\ (/\ pageIdx > 2
        /\ allPageData[1].plain_text = PageA
        /\ allPageData[2].plain_text = PageB) => courseInfo.professor = <<"D", "r", ".", " ", "A">>

FirstWinsWitness ==
  /\ pc = "parseSyllabusData"
  /\ Len(allPageData) = 3
  /\ allPageData[1].plain_text = PageUnspecified
  /\ allPageData[2].plain_text = PageB
  /\ allPageData[3].plain_text = PageA
  /\ courseInfo.professor = <<"D", "r", ".", " ", "B">>
  /\ courseInfo.name = <<"M", "a", "t", "h", " ", "2", "0", "0">>

\* what extractBulletPoints returned for the pages 1..n, page after page
RECURSIVE Returned(_, _)
Returned(n, title) ==
  IF n = 0 THEN <<>>
  ELSE Returned(n - 1, title) \o extractBulletPoints(allPageData[n].plain_text, title)

\* merged holds every string of all exactly once, in the order of first appearance
IsUnionInOrder(merged, all) ==
  /\ Range(merged) = Range(all)
  /\ NoDuplicates(merged)
  /\ \A i, j \in 1..Len(merged) : i < j => FirstIndex(all, merged[i]) < FirstIndex(all, merged[j])

UnionDedup ==
  Combining =>
    /\ IsUnionInOrder(testDates, Returned(pageIdx - 1, <<"T", "E", "S", "T", " ", "D", "A", "T", "E", "S">>))
    /\ IsUnionInOrder(assignmentDeadlines, Returned(pageIdx - 1, <<"A", "S", "S", "I", "G", "N", "M", "E", "N", "T", " ", "D", "E", "A", "D", "L", "I", "N", "E", "S">>))
    /\ IsUnionInOrder(weeklyReadings, Returned(pageIdx - 1, <<"W", "E", "E", "K", "L", "Y", " ", "R", "E", "A", "D", "I", "N", "G", "S">>))
    /\ IsUnionInOrder(majorDeliverables, Returned(pageIdx - 1, <<"M", "A", "J", "O", "R", " ", "D", "E", "L", "I", "V", "E", "R", "A", "B", "L", "E", "S">>))
    /\ IsUnionInOrder(importantDates, Returned(pageIdx - 1, <<"I", "M", "P", "O", "R", "T", "A", "N", "T", " ", "D", "A", "T", "E", "S">>))

\* the pages of the example: exam dates "Oct 1", then "Oct 1" and "Oct 15"
OctoberPages ==
  /\ pc = "parseSyllabusData"
  /\ Len(allPageData) = 2
  /\ allPageData[1].plain_text = PageOct1
  /\ allPageData[2].plain_text = PageOct1Oct15

\* C2 as stated: every merged list is the union, without duplicates and in
\* the order of first appearance, of what the section extractor returned,
\* and exam dates ["Oct 1"] and ["Oct 1","Oct 15"] merge to ["Oct 1","Oct 15"]
UnionDedupMerge ==
  /\ UnionDedup
  /\ OctoberPages => testDates = <<<<"O", "c", "t", " ", "1">>, <<"O", "c", "t", " ", "1", "5">>>>

\* C2 amended: the union property as stated; the 5-character bullet "Oct 1"
\* is not returned by the extractor, so the example's pages merge to
\* ["Oct 15"], while pages A and B merge their exam dates to
\* ["Midterm Oct 15","Final Dec 12","Exam 1 Sep 30"]
UnionDedupMergeAmended ==
  /\ UnionDedup
  /\ OctoberPages => testDates = <<<<"O", "c", "t", " ", "1", "5">>>>
  /\ (/\ pc = "parseSyllabusData"
      /\ Len(allPageData) = 2
      /\ allPageData[1].plain_text = PageA
      /\ allPageData[2].plain_text = PageB)
       => testDates = <<<<"M", "i", "d", "t", "e", "r", "m", " ", "O", "c", "t", " ", "1", "5">>, <<"F", "i", "n", "a", "l", " ", "D", "e", "c", " ", "1", "2">>, <<"E", "x", "a", "m", " ", "1", " ", "S", "e", "p", " ", "3", "0">>>>

UnionDedupWitness ==
  /\ pc = "parseSyllabusData"
  /\ Len(allPageData) = 2
  /\ allPageData[1].plain_text = PagePartial
  /\ allPageData[2].plain_text = PageUnspecified
  /\ weeklyReadings = <<<<"C", "h", "a", "p", "t", "e", "r", " ", "3", "-", "4">>, <<"C", "h", "a", "p", "t", "e", "r", " ", "1", "-", "2">>>>
  /\ majorDeliverables = <<<<"T", "e", "r", "m", " ", "p", "a", "p", "e", "r">>, <<"D", "e", "m", "o", " ", "d", "a", "y">>>>

HasPlaceholder(s) == includes(s, PLACEHOLDER)

\* C3: no course field built by parseSyllabusData, no merged course field,
\* no entry of a merged list and no assignment holds a value that contains
\* the placeholder phrase
PlaceholderNeverData ==
  pc = "done" =>
    /\ ~HasPlaceholder(courseData.course_name)
    /\ ~HasPlaceholder(courseData.professor_name)
    /\ ~HasPlaceholder(courseData.professor_email)
    /\ ~HasPlaceholder(courseData.meeting_days)
    /\ ~HasPlaceholder(courseData.office_hours)
    /\ \A f \in FieldNames : ~HasPlaceholder(courseInfo[f])
    /\ \A x \in Range(testDates) \cup Range(assignmentDeadlines) \cup Range(weeklyReadings)
                 \cup Range(majorDeliverables) \cup Range(importantDates) : ~HasPlaceholder(x)
    /\ \A i \in 1..Len(assignments) :
         ~HasPlaceholder(assignments[i].description) /\ ~HasPlaceholder(assignments[i].title)

\* C4: parsing the rendered summary recovers the merged course fields and
\* the rendered exam-date, assignment-deadline and important-date entries
TemplateRoundTrip ==
  (pc = "done" /\ Len(allPageData) > 1) =>
    /\ courseInfo.name # <<>> => courseData.course_name = courseInfo.name
    /\ courseInfo.professor # <<>> => courseData.professor_name = courseInfo.professor
    /\ courseInfo.email # <<>> => courseData.professor_email = courseInfo.email
    /\ courseInfo.meetingDays # <<>> => courseData.meeting_days = courseInfo.meetingDays
    /\ courseInfo.officeHours # <<>> => courseData.office_hours = courseInfo.officeHours
    /\ {assignments[i].description : i \in 1..Len(assignments)}
         = Range(testDates) \cup Range(assignmentDeadlines) \cup Range(importantDates)

-----------------------------------------------------------------------------
(* Properties of parseAssignmentBullet (SpecBullet) *)

\* the patterns that match the line and whose matched text is a date
ParsingPatterns(bullet, lenient) ==
  {p \in 1..4 : /\ datePatterns(p, bullet) # <<>>
                /\ LocalDate(datePatterns(p, bullet), lenient) # InvalidDate}

\* the calendar day written in the line: the day of the first pattern, in
\* the fixed order, that matches and parses
WrittenDay(bullet, lenient) ==
  LocalDate(datePatterns(MinOf(ParsingPatterns(bullet, lenient)), bullet), lenient)

\* C5: the due date comes from the first pattern, in the fixed order, that
\* matches and parses (it is that match's day as some time zone renders it),
\* and the line "Midterm March 15, 2024 (reschedule 3/20/2024)" has the due
\* date 2024-03-15
DatePatternPriority ==
  pc = "returned" =>
    /\ ParsingPatterns(bulletIn, lenientDates) # {} =>
         \E tz \in TzOffsets :
           assignment[1].due_date = ISODate(UTCDate(WrittenDay(bulletIn, lenientDates), tz))
    /\ bulletIn = LineMidterm => assignment[1].due_date = <<"2", "0", "2", "4", "-", "0", "3", "-", "1", "5">>

\* C6: in every time zone the due date is the YYYY-MM-DD of the calendar
\* day written in the line
NoTimezoneShift ==
  (pc = "returned" /\ assignment[1].due_date # <<>>) =>
    assignment[1].due_date = ISODate(WrittenDay(bulletIn, lenientDates))

\* s contains w, letters compared without regard to case
Has(s, w) == \E i \in 1..Len(s) : MatchAtI(s, i, w)

\* the classification rules in their order: the type and whether the rule applies
TypeRules(bullet, section) ==
  <<[type |-> "exam", applies |-> \/ Has(section, <<"t", "e", "s", "t">>) \/ Has(section, <<"e", "x", "a", "m">>)
                                  \/ Has(bullet, <<"t", "e", "s", "t">>) \/ Has(bullet, <<"e", "x", "a", "m">>)],
    [type |-> "assignment", applies |-> Has(bullet, <<"a", "s", "s", "i", "g", "n", "m", "e", "n", "t">>) \/ Has(bullet, <<"h", "o", "m", "e", "w", "o", "r", "k">>)],
    [type |-> "reading", applies |-> Has(bullet, <<"r", "e", "a", "d", "i", "n", "g">>)],
    [type |-> "project", applies |-> Has(bullet, <<"p", "r", "o", "j", "e", "c", "t">>)],
    [type |-> "quiz", applies |-> Has(bullet, <<"q", "u", "i", "z">>)],
    [type |-> "other", applies |-> TRUE]>>

\* C7: the type is that of the first rule, in the order exam, assignment,
\* reading, project, quiz, other, whose case-insensitive substring test holds
TypeFirstMatchWins ==
  pc = "returned" =>
    LET rules == TypeRules(bulletIn, sectionIn)
    IN \E k \in 1..6 :
         /\ rules[k].applies
         /\ \A j \in 1..(k - 1) : ~rules[j].applies
         /\ assignment[1].type = rules[k].type

TypeFirstMatchWitness ==
  /\ pc = "returned"
  /\ bulletIn = <<"R", "e", "a", "d", "i", "n", "g", " ", "p", "r", "o", "j", "e", "c", "t", " ", "q", "u", "i", "z">>
  /\ sectionIn = <<"I", "m", "p", "o", "r", "t", "a", "n", "t", " ", "D", "a", "t", "e", "s">>
  /\ assignment[1].type = "reading"

\* C8 as stated: the three literal lines are exam, assignment and reading
TypeLiteralCases ==
  pc = "returned" =>
    /\ bulletIn = LineFinalExam => assignment[1].type = "exam"
    /\ bulletIn = LineHomework2 => assignment[1].type = "assignment"
    /\ bulletIn = LineWeek3 => assignment[1].type = "reading"

ExamSection == Has(sectionIn, <<"t", "e", "s", "t">>) \/ Has(sectionIn, <<"e", "x", "a", "m">>)

\* C8 amended: "Final Exam due December 12, 2024" is an exam; in a section
\* whose name holds neither "test" nor "exam", "Homework 2 Due: October 8,
\* 2024" is an assignment and "Week 3: Chapter 5-6", which holds none of the
\* keywords, is other; in the sections TEST DATES and EXAMS both are exams
TypeLiteralCasesAmended ==
  pc = "returned" =>
    /\ bulletIn = LineFinalExam => assignment[1].type = "exam"
    /\ bulletIn = LineHomework2 =>
         assignment[1].type = (IF ExamSection THEN "exam" ELSE "assignment")
    /\ bulletIn = LineWeek3 =>
         assignment[1].type = (IF ExamSection THEN "exam" ELSE "other")

TypeLiteralWitness ==
  /\ pc = "returned"
  /\ bulletIn = LineWeek3
  /\ sectionIn = <<"A", "S", "S", "I", "G", "N", "M", "E", "N", "T", " ", "D", "E", "A", "D", "L", "I", "N", "E">>
  /\ assignment[1].type = "other"

\* C9: a record is returned for every line; it keeps the line as its
\* description and has a non-empty title; a pattern whose match does not
\* parse does not end the scan, so the due date is null exactly when no
\* pattern matches and parses, and then the title is the whole line
UnparseableDateKeepsRecord ==
  pc = "returned" =>
    /\ Len(assignment) = 1
    /\ assignment[1].description = bulletIn
    /\ assignment[1].title # <<>>
    /\ assignment[1].due_time = <<>>
    /\ ParsingPatterns(bulletIn, lenientDates) = {} =>
         assignment[1].due_date = <<>> /\ assignment[1].title = bulletIn
    /\ ParsingPatterns(bulletIn, lenientDates) # {} => assignment[1].due_date # <<>>

\* the numeric pattern matches "13/45/2024", which is no date, and no other
\* pattern matches the line
UnparseableDateWitness ==
  /\ pc = "returned"
  /\ bulletIn = LineBadNumeric
  /\ datePatterns(2, bulletIn) = <<"1", "3", "/", "4", "5", "/", "2", "0", "2", "4">>
  /\ assignment[1].due_date = <<>>
  /\ assignment[1].title = LineBadNumeric

-----------------------------------------------------------------------------
(* Properties of extractBulletPoints (SpecExtract) *)

\* the positions of the layout's sections whose title is the one asked for
TargetSections == {i \in 1..Len(layout.kinds) : SectionKinds[layout.kinds[i]].title = sectionTitle}

\* a is b with some of its elements left out
RECURSIVE IsSubsequence(_, _)
IsSubsequence(a, b) ==
  IF a = <<>> THEN TRUE
  ELSE IF b = <<>> THEN FALSE
  ELSE IF Head(a) = Head(b) THEN IsSubsequence(Tail(a), Tail(b))
  ELSE IsSubsequence(a, Tail(b))

\* the trimmed bullet texts of the first section with the title asked for
TargetBullets == Map(trim, KindBullets(layout.kinds[MinOf(TargetSections)], layout.variant))

StatedFilter(b) ==
  /\ ~includes(b, PLACEHOLDER)
  /\ ~includes(b, sectionTitle)
  /\ Len(b) >= 6

\* C11: what is returned for a section that is present are exactly its
\* trimmed bullets, in order, that hold no placeholder, do not repeat the
\* section's own header and have at least 6 characters
BulletFilter ==
  (pc = "extracted" /\ TargetSections # {}) =>
    extracted = SelectSeq(TargetBullets, StatedFilter)

-----------------------------------------------------------------------------
(* Properties of the assignment list of one document (SpecMerge) *)

\* C12: the assignment records of one document have pairwise different
\* descriptions (the trimmed bullet texts)
AssignmentUniqueness ==
  pc = "done" =>
    \A i, j \in 1..Len(assignments) :
      i # j => assignments[i].description # assignments[j].description

-----------------------------------------------------------------------------
(* The upload server: startServer, GET /health and POST /api/scan-syllabus  *)
(* of server.js and of its variant part_001, one request at a time.         *)
(* Replies of the model, outcomes of text extraction and of database calls  *)
(* are choices of the environment.                                          *)

allowedTypes == {"image/jpeg", "image/png", "image/jpg", "application/pdf"}

AcceptEveryFile(file) == TRUE

\* fileFilter: cb(null, true) for an allowed type, cb(new Error(...)) otherwise
fileFilter(file) == file.mimetype \in allowedTypes

File(mimetype, ext) == [mimetype |-> mimetype, ext |-> ext]

\* the files sent: the extension is the one of the original name, whatever
\* the MIME type says
Uploads ==
  { File("image/jpeg", ".jpg"), File("image/png", ".png"), File("image/jpg", ".pdf"),
    File("application/pdf", ".pdf"), File("text/plain", ".txt"), File("image/gif", ".gif"),
    File("text/plain", ".pdf") }

PdfSuggestion ==
  <<"F", "a", "i", "l", "e", "d", " ", "t", "o", " ", "p", "r", "o", "c", "e", "s", "s", " ", "P", "D", "F", ".", " ", "P", "l", "e", "a", "s", "e", " ", "t", "r", "y", " ", "u", "p", "l", "o", "a", "d", "i", "n", "g", " ", "a", "n", " ", "i", "m", "a", "g", "e", " ", "(", "J", "P", "G", "/", "P", "N", "G", ")", " ", "o", "f", " ", "y", "o", "u", "r", " ", "s", "y", "l", "l", "a", "b", "u", "s", " ", "i", "n", "s", "t", "e", "a", "d", ".">>

\* what the model answers: the call throws, or message.content is null or a text
Reply(kind, text) == [kind |-> kind, text |-> text]

ServerReplies ==
  {Reply("throws", <<>>), Reply("null", <<>>)}
    \cup {Reply("text", t) : t \in {PageOct1Oct15, PageOct1, <<>>}}

\* the body sent with res.json; 0 is a course id of null, -1 an absent count
Response(status, error, message, course_id, count, saved) ==
  [status |-> status, success |-> status = 200, error |-> error, message |-> message,
   course_id |-> course_id, assignments |-> count, assignments_saved |-> saved]

\* the catch blocks of the handler: the file is unlinked, the answer is a 500
HandlerCatch(message) ==
  /\ fileOnDisk' = FALSE
  /\ res' = <<Response(500, IF proc = "server.js" THEN <<"J", "o", "b", " ", "c", "r", "e", "a", "t", "i", "o", "n", " ", "f", "a", "i", "l", "e", "d">> ELSE <<"P", "r", "o", "c", "e", "s", "s", "i", "n", "g", " ", "f", "a", "i", "l", "e", "d">>,
                       Or(message, <<"A", "n", " ", "u", "n", "e", "x", "p", "e", "c", "t", "e", "d", " ", "e", "r", "r", "o", "r", " ", "o", "c", "c", "u", "r", "r", "e", "d">>), 0, -1, -1)>>
  /\ pc' = "responded"

\* the success branch: fs.unlink, then res.json
HandlerSuccess(id, saved) ==
  /\ fileOnDisk' = FALSE
  /\ res' = <<Response(200, <<>>,
                       IF proc = "server.js" THEN <<"S", "y", "l", "l", "a", "b", "u", "s", " ", "p", "r", "o", "c", "e", "s", "s", "e", "d", " ", "s", "u", "c", "c", "e", "s", "s", "f", "u", "l", "l", "y", "!">>
                       ELSE <<"S", "y", "l", "l", "a", "b", "u", "s", " ", "a", "n", "a", "l", "y", "z", "e", "d", " ", "a", "n", "d", " ", "s", "a", "v", "e", "d", " ", "s", "u", "c", "c", "e", "s", "s", "f", "u", "l", "l", "y">>,
                       id, IF proc = "server.js" THEN Len(assignments) ELSE -1, Len(saved))>>
  /\ pc' = "responded"

InitServer ==
  /\ IdleRest
  /\ pc = "startServer"
  /\ IdleEnv /\ IdleBullet /\ IdleExtract /\ IdleMerge /\ IdleParse
  /\ proc \in {"server.js", "part_001"}
  /\ activeDatabase = "null"
  /\ healthRes = <<>>
  /\ reqFile = <<>>
  /\ fileOnDisk = FALSE
  /\ pdfText = "none"
  /\ aiValue = <<>>
  /\ IdleSave
  /\ res = <<>>
  /\ jobRow = [status |-> "none", result |-> <<>>, error_message |-> <<>>]
  /\ effects = {}

AlwaysTrySqlite(connected) == "sqliteFallback"

\* where startServer goes after await database.connect(): on to app.listen
\* when it resolved, into the catch block with the SQLite fallback otherwise
AfterMySQL(connected) == IF connected THEN "listening" ELSE "sqliteFallback"

\* startServer: await database.connect() and, when it resolved,
\* activeDatabase = database and app.listen
StartServer ==
  /\ pc = "startServer"
  /\ \E mysqlConnected \in BOOLEAN :
       /\ activeDatabase' = IF mysqlConnected THEN "mysql" ELSE activeDatabase
       /\ pc' = AfterMySQL(mysqlConnected)
  /\ UNCHANGED <<restVars, envVars, bulletVars, extractVars, mergeVars, parseVars, proc, healthRes, reqFile,
                 fileOnDisk, pdfText, aiValue, saveVars, res, jobRow, effects>>

\* the catch block of startServer: await sqliteDatabase.connect(); the server
\* listens whether it resolved or not, without a database in the latter case
SqliteFallback ==
  /\ pc = "sqliteFallback"
  /\ \E sqliteConnected \in BOOLEAN :
       activeDatabase' = IF sqliteConnected THEN "sqlite" ELSE activeDatabase
  /\ pc' = "listening"
  /\ UNCHANGED <<restVars, envVars, bulletVars, extractVars, mergeVars, parseVars, proc, healthRes, reqFile,
                 fileOnDisk, pdfText, aiValue, saveVars, res, jobRow, effects>>

\* GET /health, once the server listens: the answer reads no state
Health ==
  /\ pc = "listening"
  /\ healthRes' = <<[status |-> "OK", service |-> "syllabus-scanner-server"]>>
  /\ pc' = "responded"
  /\ UNCHANGED <<restVars, envVars, bulletVars, extractVars, mergeVars, parseVars, proc, activeDatabase,
                 reqFile, fileOnDisk, pdfText, aiValue, saveVars, res, jobRow, effects>>

\* upload.single('syllabus') on a request with a file: a file the filter
\* rejects is not stored and the error goes to the error middleware, which
\* answers 500 with error.message; an accepted file is stored
Upload ==
  /\ pc = "listening"
  /\ \E file \in Uploads :
       /\ reqFile' = <<file>>
       /\ IF fileFilter(file)
          THEN /\ fileOnDisk' = TRUE
               /\ pc' = "handler"
               /\ res' = res
          ELSE /\ fileOnDisk' = FALSE
               /\ pc' = "responded"
               /\ res' = <<Response(500, <<"I", "n", "t", "e", "r", "n", "a", "l", " ", "s", "e", "r", "v", "e", "r", " ", "e", "r", "r", "o", "r">>, <<"I", "n", "v", "a", "l", "i", "d", " ", "f", "i", "l", "e", " ", "t", "y", "p", "e", ".", " ", "O", "n", "l", "y", " ", "J", "P", "E", "G", ",", " ", "P", "N", "G", ",", " ", "a", "n", "d", " ", "P", "D", "F", " ", "f", "i", "l", "e", "s", " ", "a", "r", "e", " ", "a", "l", "l", "o", "w", "e", "d", ".">>, 0, -1, -1)>>
  /\ UNCHANGED <<restVars, envVars, bulletVars, extractVars, mergeVars, parseVars, proc, activeDatabase,
                 healthRes, pdfText, aiValue, saveVars, jobRow, effects>>

\* a request without a file part passes multer and is answered 400
UploadNothing ==
  /\ pc = "listening"
  /\ res' = <<Response(400, <<"N", "o", " ", "f", "i", "l", "e", " ", "u", "p", "l", "o", "a", "d", "e", "d">>, <<"P", "l", "e", "a", "s", "e", " ", "u", "p", "l", "o", "a", "d", " ", "a", " ", "s", "y", "l", "l", "a", "b", "u", "s", " ", "i", "m", "a", "g", "e", " ", "o", "r", " ", "P", "D", "F", " ", "f", "i", "l", "e">>, 0, -1, -1)>>
  /\ pc' = "responded"
  /\ UNCHANGED <<restVars, envVars, bulletVars, extractVars, mergeVars, parseVars, proc, activeDatabase,
                 healthRes, reqFile, fileOnDisk, pdfText, aiValue, saveVars, jobRow, effects>>

\* the handler up to its first await: server.js refuses to work without a
\* database, part_001 goes on
EnterHandler ==
  /\ pc = "handler"
  /\ IF proc = "server.js" /\ activeDatabase = "null"
     THEN HandlerCatch(<<"D", "a", "t", "a", "b", "a", "s", "e", " ", "c", "o", "n", "n", "e", "c", "t", "i", "o", "n", " ", "u", "n", "a", "v", "a", "i", "l", "a", "b", "l", "e">>)
     ELSE pc' = "analyzeSyllabusWithOpenAI" /\ UNCHANGED <<fileOnDisk, res>>
  /\ UNCHANGED <<restVars, envVars, bulletVars, extractVars, mergeVars, parseVars, proc, activeDatabase,
                 healthRes, reqFile, pdfText, aiValue, saveVars, jobRow, effects>>

\* analyzeSyllabusWithOpenAI of server.js (the second definition, the one in
\* force): a .pdf has its text extracted and sent to the model, whatever the
\* text is, and the file is unlinked on return; any other file is sent as an
\* image and the reply comes back as {plain_text}
AnalyzeServer ==
  /\ pc = "analyzeSyllabusWithOpenAI"
  /\ proc = "server.js"
  /\ IF reqFile[1].ext = ".pdf"
     THEN \E extraction \in {"throws", "empty", "text"}, reply \in ServerReplies :
            /\ pdfText' = extraction
            /\ IF extraction = "throws"
               THEN /\ HandlerCatch(<<"F", "a", "i", "l", "e", "d", " ", "t", "o", " ", "a", "n", "a", "l", "y", "z", "e", " ", "s", "y", "l", "l", "a", "b", "u", "s", ":", " ">> \o PdfSuggestion)
                    /\ effects' = effects \cup {"analysis"}
                    /\ aiValue' = aiValue
               ELSE /\ effects' = effects \cup {"analysis", "model"}
                    /\ IF reply.kind = "throws"
                       THEN /\ HandlerCatch(<<"F", "a", "i", "l", "e", "d", " ", "t", "o", " ", "a", "n", "a", "l", "y", "z", "e", " ", "s", "y", "l", "l", "a", "b", "u", "s", ":", " ">> \o PdfSuggestion)
                            /\ aiValue' = aiValue
                       ELSE /\ aiValue' = <<IF reply.kind = "null" THEN null ELSE String(reply.text)>>
                            /\ fileOnDisk' = FALSE
                            /\ pc' = "parseSyllabusData"
                            /\ res' = res
     ELSE \E reply \in ServerReplies :
            /\ pdfText' = pdfText
            /\ effects' = effects \cup {"analysis", "model"}
            /\ CASE reply.kind = "throws" ->
                      /\ HandlerCatch(<<"F", "a", "i", "l", "e", "d", " ", "t", "o", " ", "a", "n", "a", "l", "y", "z", "e", " ", "s", "y", "l", "l", "a", "b", "u", "s", ":", " ">> \o <<"C", "o", "n", "n", "e", "c", "t", "i", "o", "n", " ", "e", "r", "r", "o", "r", ".">>)
                      /\ aiValue' = aiValue
                 [] reply.kind = "null" ->
                      /\ HandlerCatch(<<"F", "a", "i", "l", "e", "d", " ", "t", "o", " ", "a", "n", "a", "l", "y", "z", "e", " ", "s", "y", "l", "l", "a", "b", "u", "s", ":", " ">> \o <<"C", "a", "n", "n", "o", "t", " ", "r", "e", "a", "d", " ", "p", "r", "o", "p", "e", "r", "t", "i", "e", "s", " ", "o", "f", " ", "n", "u", "l", "l", " ", "(", "r", "e", "a", "d", "i", "n", "g", " ", "'", "t", "r", "i", "m", "'", ")">>)
                      /\ aiValue' = aiValue
                 [] OTHER ->
                      /\ aiValue' = <<Object(<<[key |-> <<"p", "l", "a", "i", "n", "_", "t", "e", "x", "t">>, value |-> String(trim(reply.text))]>>)>>
                      /\ pc' = "parseSyllabusData"
                      /\ UNCHANGED <<fileOnDisk, res>>
  /\ UNCHANGED <<restVars, envVars, bulletVars, extractVars, mergeVars, parseVars, proc, activeDatabase,
                 healthRes, reqFile, saveVars, jobRow>>

\* analyzeSyllabusWithOpenAI of part_001: a .pdf is converted to images, and
\* every failure is rethrown as 'Failed to analyze syllabus'
AnalyzeVariant ==
  /\ pc = "analyzeSyllabusWithOpenAI"
  /\ proc = "part_001"
  /\ \E converted \in BOOLEAN, reply \in ServerReplies :
       IF reqFile[1].ext = ".pdf" /\ ~converted
       THEN /\ HandlerCatch(<<"F", "a", "i", "l", "e", "d", " ", "t", "o", " ", "a", "n", "a", "l", "y", "z", "e", " ", "s", "y", "l", "l", "a", "b", "u", "s">>)
            /\ effects' = effects \cup {"analysis"}
            /\ aiValue' = aiValue
       ELSE /\ effects' = effects \cup {"analysis", "model"}
            /\ IF reply.kind = "text"
               THEN /\ aiValue' = <<Object(<<[key |-> <<"p", "l", "a", "i", "n", "_", "t", "e", "x", "t">>, value |-> String(trim(reply.text))]>>)>>
                    /\ pc' = "parseSyllabusData"
                    /\ UNCHANGED <<fileOnDisk, res>>
               ELSE /\ HandlerCatch(<<"F", "a", "i", "l", "e", "d", " ", "t", "o", " ", "a", "n", "a", "l", "y", "z", "e", " ", "s", "y", "l", "l", "a", "b", "u", "s">>)
                    /\ aiValue' = aiValue
  /\ UNCHANGED <<restVars, envVars, bulletVars, extractVars, mergeVars, parseVars, proc, activeDatabase,
                 healthRes, reqFile, pdfText, saveVars, jobRow>>

\* the argument the handler gives to parseSyllabusData
ParseArgument(v) == IF proc = "server.js" THEN v ELSE OrElse(Get(v, <<"p", "l", "a", "i", "n", "_", "t", "e", "x", "t">>), v)

\* const { courseData, assignments } = parseSyllabusData(...) in the handler:
\* extractField calls text.match, which only a string has, so every other
\* value ends in a TypeError that the catch blocks of the handler answer
ParseInHandler ==
  /\ pc = "parseSyllabusData"
  /\ proc \in {"server.js", "part_001"}
  /\ LET v == ParseArgument(aiValue[1])
     IN IF v.kind # "string"
        THEN /\ HandlerCatch(IF HasProperties(v) THEN <<"t", "e", "x", "t", ".", "m", "a", "t", "c", "h", " ", "i", "s", " ", "n", "o", "t", " ", "a", " ", "f", "u", "n", "c", "t", "i", "o", "n">>
                               ELSE <<"C", "a", "n", "n", "o", "t", " ", "r", "e", "a", "d", " ", "p", "r", "o", "p", "e", "r", "t", "i", "e", "s", " ", "o", "f", " ", "n", "u", "l", "l", " ", "(", "r", "e", "a", "d", "i", "n", "g", " ", "'", "m", "a", "t", "c", "h", "'", ")">>)
             /\ UNCHANGED <<envVars, courseData, assignments>>
        ELSE LET calls == extractAssignmentsFrom(v.text, 1)
                 data == CourseDataOf(v.text)
             IN \E tz \in TzOffsets, lenient \in BOOLEAN :
                  /\ tzOffset' = tz
                  /\ lenientDates' = lenient
                  /\ courseData' = data
                  /\ assignments' = PushAssignments(calls, tz, lenient)
                  /\ pc' = "saveCourse"
                  /\ UNCHANGED <<fileOnDisk, res>>
  /\ UNCHANGED <<restVars, bulletVars, extractVars, mergeVars, aiResponse, proc, activeDatabase, healthRes,
                 reqFile, pdfText, aiValue, saveVars, jobRow, effects>>

\* courseId = await activeDatabase.saveCourse(courseData): server.js lets a
\* failure reach its catch blocks; part_001 skips the save without a database
\* and answers with course_id null when the save fails
SaveCourse ==
  /\ pc = "saveCourse"
  /\ proc \in {"server.js", "part_001"}
  /\ IF activeDatabase = "null"
     THEN HandlerSuccess(0, <<>>) /\ UNCHANGED <<saveVars, effects>>
     ELSE \E ok \in BOOLEAN :
            /\ effects' = effects \cup {"dbWrite"}
            /\ UNCHANGED <<attempted, inserted, savedAssignments>>
            /\ CASE ok /\ Len(assignments) > 0 ->
                      /\ courseId' = 1
                      /\ saveIdx' = 1
                      /\ pc' = "saveMultipleAssignments"
                      /\ UNCHANGED <<fileOnDisk, res>>
                 [] ok /\ Len(assignments) = 0 ->
                      /\ courseId' = 1
                      /\ saveIdx' = saveIdx
                      /\ HandlerSuccess(1, <<>>)
                 [] OTHER ->
                      /\ UNCHANGED <<courseId, saveIdx>>
                      /\ IF proc = "server.js" THEN HandlerCatch(<<"E", "R", "_", "L", "O", "C", "K", "_", "D", "E", "A", "D", "L", "O", "C", "K">>) ELSE HandlerSuccess(0, <<>>)
  /\ UNCHANGED <<restVars, envVars, bulletVars, extractVars, mergeVars, parseVars, proc, activeDatabase,
                 healthRes, reqFile, pdfText, aiValue, jobRow>>

StopAfterFailedInsert(i, ok) == IF ok THEN i + 1 ELSE Len(assignments) + 1

\* the index the loop of saveMultipleAssignments goes to after assignment i:
\* the catch around saveAssignment logs the error and the loop continues
NextAssignment(i, ok) == i + 1

\* one iteration of the loop of saveMultipleAssignments: the insert succeeds
\* and its id is pushed, or it fails and nothing is pushed
SaveAssignment ==
  /\ pc = "saveMultipleAssignments"
  /\ saveIdx <= Len(assignments)
  /\ \E ok \in BOOLEAN :
       /\ attempted' = Append(attempted, saveIdx)
       /\ inserted' = IF ok THEN Append(inserted, [index |-> saveIdx, id |-> Len(inserted) + 1])
                      ELSE inserted
       /\ savedAssignments' = IF ok THEN Append(savedAssignments, Len(inserted) + 1)
                              ELSE savedAssignments
       /\ saveIdx' = NextAssignment(saveIdx, ok)
  /\ effects' = effects \cup {"dbWrite"}
  /\ UNCHANGED <<restVars, pc, envVars, bulletVars, extractVars, mergeVars, parseVars, proc, activeDatabase,
                 healthRes, reqFile, fileOnDisk, pdfText, aiValue, courseId, res, jobRow>>

\* return savedAssignments, to the handler, which answers with the counts
ReturnSavedToHandler ==
  /\ pc = "saveMultipleAssignments"
  /\ proc \in {"server.js", "part_001"}
  /\ saveIdx > Len(assignments)
  /\ HandlerSuccess(courseId, savedAssignments)
  /\ UNCHANGED <<restVars, envVars, bulletVars, extractVars, mergeVars, parseVars, proc, activeDatabase,
                 healthRes, reqFile, pdfText, aiValue, saveVars, jobRow, effects>>

NextServer ==
  \/ StartServer
  \/ SqliteFallback
  \/ Health
  \/ Upload
  \/ UploadNothing
  \/ EnterHandler
  \/ AnalyzeServer
  \/ AnalyzeVariant
  \/ ParseInHandler
  \/ SaveCourse
  \/ SaveAssignment
  \/ ReturnSavedToHandler

SpecServer == InitServer /\ [][NextServer]_vars

-----------------------------------------------------------------------------
(* Properties of the request handler (SpecServer) *)

\* C13: parseSyllabusData raises no exception, whatever value the analysis
\* step handed to it: a handler that reached the call goes on to save the
\* course data and the assignments the call returned
NormalizerNeverThrows == [][pc = "parseSyllabusData" /\ pc' # pc => pc' = "saveCourse"]_vars

\* parseSyllabusData returned to the handler: the analysis and the parse of
\* the request succeeded
ParsedInHandler == reqFile # <<>> /\ courseData.course_name # <<>>

\* a save of the request failed or was skipped
SaveFailed == courseId = 0 \/ Len(inserted) < Len(assignments)

\* C15: once the analysis and the parse of an upload succeeded, the answer is
\* a success whatever the database does, and a failed or skipped save shows
\* in it: course_id is null or assignments_saved is below the number of
\* assignments extracted
DatabaseFailureNeverFailsUpload ==
  (pc = "responded" /\ ParsedInHandler) =>
    /\ res[1].status = 200
    /\ SaveFailed => (res[1].course_id = 0 \/ res[1].assignments_saved < Len(assignments))

\* the indexes 1..n in order
UpTo(n) == [k \in 1..n |-> k]

\* C16: saveMultipleAssignments hands every assignment to saveAssignment once,
\* in list order, whatever inserts fail; it returns without an exception, and
\* what it returns are the ids of the inserts that succeeded, in list order,
\* so never more than the list has
SaveToleratesPartialFailure ==
  /\ pc = "saveMultipleAssignments" => attempted = UpTo(saveIdx - 1)
  /\ (pc = "responded" /\ saveIdx > 0) =>
       /\ attempted = UpTo(Len(assignments))
       /\ res[1].status = 200
       /\ res[1].assignments_saved = Len(inserted)
  /\ savedAssignments = [k \in 1..Len(inserted) |-> inserted[k].id]
  /\ \A k \in 1..Len(inserted) :
       /\ inserted[k].index \in Range(attempted)
       /\ \A l \in 1..Len(inserted) : k < l => inserted[k].index < inserted[l].index
  /\ Len(savedAssignments) <= Len(assignments)

\* the first of two inserts failed and the second one succeeded
SaveToleratesPartialFailureWitness ==
  /\ pc = "responded"
  /\ Len(assignments) = 2
  /\ attempted = <<1, 2>>
  /\ inserted = <<[index |-> 2, id |-> 1]>>
  /\ savedAssignments = <<1>>
  /\ res[1].assignments_saved = 1

\* C17: an upload whose PDF gave empty text ends in an error answer whose
\* message suggests uploading an image (JPG/PNG) instead
EmptyTextIsReported ==
  (pc = "responded" /\ pdfText = "empty") =>
    /\ res[1].status # 200
    /\ includes(res[1].message, <<"i", "m", "a", "g", "e", " ", "(", "J", "P", "G", "/", "P", "N", "G", ")">>)

\* C18: an upload whose MIME type is none of image/jpeg, image/png, image/jpg
\* and application/pdf is answered with an error whose message mentions the
\* file type, and nothing was analysed, sent to the model or written to the
\* database for it
FileTypeValidation ==
  (reqFile # <<>> /\ reqFile[1].mimetype \notin {"image/jpeg", "image/png", "image/jpg", "application/pdf"}) =>
    /\ pc = "responded"
    /\ res[1].status >= 400
    /\ res[1].error # <<>>
    /\ includes(res[1].message, <<"f", "i", "l", "e", " ", "t", "y", "p", "e">>)
    /\ effects = {}
    /\ aiValue = <<>>

\* a text/plain file named *.txt was sent and answered
FileTypeValidationWitness ==
  /\ reqFile = <<File("text/plain", ".txt")>>
  /\ res # <<>>
  /\ res[1].status = 500

\* C19: when GET /health answered with status "OK" and service
\* "syllabus-scanner-server", the server has a database connection
HealthImpliesDatabase ==
  (healthRes # <<>> /\ healthRes[1].status = "OK" /\ healthRes[1].service = "syllabus-scanner-server") =>
    activeDatabase # "null"

-----------------------------------------------------------------------------
(* The background worker: runWorker takes the pending job, processJob      *)
(* analyses its file, saves what was found and writes the job's row.        *)

ReplyStructured == <<"{", "\"", "c", "o", "u", "r", "s", "e", "_", "n", "a", "m", "e", "\"", ":", "\"", "M", "a", "t", "h", " ", "1", "0", "1", "\"", ",", "\"", "a", "s", "s", "i", "g", "n", "m", "e", "n", "t", "s", "\"", ":", "[", "{", "\"", "t", "i", "t", "l", "e", "\"", ":", "\"", "H", "W", "1", "\"", "}", ",", "{", "\"", "t", "i", "t", "l", "e", "\"", ":", "\"", "H", "W", "2", "\"", "}", "]", "}">>

ReplyFreeText == <<"C", "o", "u", "r", "s", "e", " ", "N", "a", "m", "e", ":", " ", "M", "a", "t", "h", " ", "1", "0", "1", "\n", "D83D", "DCDD", " ", "T", "E", "S", "T", " ", "D", "A", "T", "E", "S", "\n", BULLET, " ", "Q", "u", "i", "z", " ", "O", "c", "t", " ", "1">>

WorkerReplies ==
  {Reply("throws", <<>>), Reply("null", <<>>)}
    \cup {Reply("text", t) : t \in {ReplyStructured, ReplyFreeText, <<"n", "u", "l", "l">>, <<"4", "2">>, <<"\"", "h", "i", "\"">>, <<>>}}

\* what analyzeSyllabusWithOpenAI returns for message.content: JSON.parse of
\* it (null is converted to the text "null"), or the fallback object when
\* JSON.parse throws a SyntaxError
ParsedReply(reply) ==
  LET parsed == IF reply.kind = "null" THEN <<null>> ELSE JSONParse(reply.text)
      replied == IF reply.kind = "null" THEN null ELSE String(reply.text)
  IN IF parsed # <<>> THEN parsed[1]
     ELSE Object(<<[key |-> <<"p", "l", "a", "i", "n", "_", "t", "e", "x", "t">>, value |-> replied],
                   [key |-> <<"e", "r", "r", "o", "r">>, value |-> String(<<"F", "a", "i", "l", "e", "d", " ", "t", "o", " ", "p", "a", "r", "s", "e", " ", "s", "t", "r", "u", "c", "t", "u", "r", "e", "d", " ", "d", "a", "t", "a">>)],
                   [key |-> <<"r", "a", "w", "_", "r", "e", "s", "p", "o", "n", "s", "e">>, value |-> replied]>>)

InitWorker ==
  /\ IdleRest
  /\ pc = "getPendingJobs"
  /\ IdleEnv /\ IdleBullet /\ IdleExtract /\ IdleMerge /\ IdleParse
  /\ proc = "worker"
  /\ activeDatabase \in {"mysql", "sqlite"}
  /\ healthRes = <<>>
  /\ reqFile = <<File("application/pdf", ".pdf")>>
  /\ fileOnDisk \in BOOLEAN
  /\ pdfText = "none"
  /\ aiValue = <<>>
  /\ IdleSave
  /\ res = <<>>
  /\ jobRow = [status |-> "pending", result |-> <<>>, error_message |-> <<>>]
  /\ effects = {}

\* the catch block of processJob: await updateJobError, then the cleanup;
\* when updateJobError rejects, the cleanup is not reached and the loop of
\* runWorker logs the error
WorkerCatch(message) ==
  /\ \E ok \in BOOLEAN :
       IF ok
       THEN /\ jobRow' = [jobRow EXCEPT !.status = "failed", !.error_message = message]
            /\ fileOnDisk' = FALSE
       ELSE UNCHANGED <<jobRow, fileOnDisk>>
  /\ pc' = "getPendingJobs"

\* getPendingJobs(5) returns the job while its row says pending
GetPendingJobs ==
  /\ pc = "getPendingJobs"
  /\ jobRow.status = "pending"
  /\ pc' = "processJob"
  /\ UNCHANGED <<restVars, envVars, bulletVars, extractVars, mergeVars, parseVars, flowVars>>

\* await database.updateJobStatus(job.id, 'processing')
UpdateJobStatus ==
  /\ pc = "processJob"
  /\ \E ok \in BOOLEAN :
       IF ok
       THEN /\ jobRow' = [jobRow EXCEPT !.status = "processing"]
            /\ pc' = "analyzeSyllabusWithOpenAI"
            /\ fileOnDisk' = fileOnDisk
       ELSE WorkerCatch(<<"E", "R", "_", "L", "O", "C", "K", "_", "D", "E", "A", "D", "L", "O", "C", "K">>)
  /\ effects' = effects \cup {"dbWrite"}
  /\ UNCHANGED <<restVars, envVars, bulletVars, extractVars, mergeVars, parseVars, proc, activeDatabase,
                 healthRes, reqFile, pdfText, aiValue, saveVars, res>>

\* analyzeSyllabusWithOpenAI of the worker: the text of the PDF, whatever it
\* is, goes into the prompt, and the reply goes through JSON.parse
AnalyzeWorker ==
  /\ pc = "analyzeSyllabusWithOpenAI"
  /\ proc = "worker"
  /\ IF ~fileOnDisk
     THEN /\ WorkerCatch(<<"F", "i", "l", "e", " ", "n", "o", "t", " ", "f", "o", "u", "n", "d", ":", " ", "u", "p", "l", "o", "a", "d", "s", "/", "s", "y", "l", "l", "a", "b", "u", "s", ".", "p", "d", "f">>)
          /\ UNCHANGED <<pdfText, aiValue, effects>>
     ELSE \E extraction \in {"throws", "empty", "text"}, reply \in WorkerReplies :
            /\ pdfText' = extraction
            /\ CASE extraction = "throws" ->
                      /\ WorkerCatch(<<"I", "n", "v", "a", "l", "i", "d", " ", "P", "D", "F", " ", "s", "t", "r", "u", "c", "t", "u", "r", "e">>)
                      /\ aiValue' = aiValue
                      /\ effects' = effects \cup {"analysis"}
                 [] extraction # "throws" /\ reply.kind = "throws" ->
                      /\ WorkerCatch(<<"C", "o", "n", "n", "e", "c", "t", "i", "o", "n", " ", "e", "r", "r", "o", "r", ".">>)
                      /\ aiValue' = aiValue
                      /\ effects' = effects \cup {"analysis", "model"}
                 [] OTHER ->
                      /\ aiValue' = <<ParsedReply(reply)>>
                      /\ effects' = effects \cup {"analysis", "model"}
                      /\ pc' = "parseSyllabusData"
                      /\ UNCHANGED <<jobRow, fileOnDisk>>
  /\ UNCHANGED <<restVars, envVars, bulletVars, extractVars, mergeVars, parseVars, proc, activeDatabase,
                 healthRes, reqFile, saveVars, res>>

\* const { courseData, assignments } = parseSyllabusData(aiResponse) in processJob
ParseInWorker ==
  /\ pc = "parseSyllabusData"
  /\ proc = "worker"
  /\ LET parsed == parseSyllabusDataJSON(aiValue[1])
     IN IF parsed = <<>>
        THEN /\ WorkerCatch(<<"C", "a", "n", "n", "o", "t", " ", "r", "e", "a", "d", " ", "p", "r", "o", "p", "e", "r", "t", "i", "e", "s", " ", "o", "f", " ", "n", "u", "l", "l", " ", "(", "r", "e", "a", "d", "i", "n", "g", " ", "'", "c", "o", "u", "r", "s", "e", "_", "n", "a", "m", "e", "'", ")">>)
             /\ UNCHANGED <<courseData, assignments>>
        ELSE /\ courseData' = parsed[1].courseData
             /\ assignments' = parsed[1].assignments
             /\ pc' = "saveCourse"
             /\ UNCHANGED <<jobRow, fileOnDisk>>
  /\ UNCHANGED <<restVars, envVars, bulletVars, extractVars, mergeVars, aiResponse, proc, activeDatabase,
                 healthRes, reqFile, pdfText, aiValue, saveVars, res, effects>>

\* courseId = await database.saveCourse(courseData), inside the try whose
\* catch lets the job complete
SaveCourseInWorker ==
  /\ pc = "saveCourse"
  /\ proc = "worker"
  /\ \E ok \in BOOLEAN :
       /\ courseId' = IF ok THEN 1 ELSE 0
       /\ saveIdx' = IF ok /\ Len(assignments) > 0 THEN 1 ELSE saveIdx
       /\ pc' = IF ok /\ Len(assignments) > 0 THEN "saveMultipleAssignments" ELSE "updateJobResult"
  /\ effects' = effects \cup {"dbWrite"}
  /\ UNCHANGED <<restVars, envVars, bulletVars, extractVars, mergeVars, parseVars, proc, activeDatabase,
                 healthRes, reqFile, fileOnDisk, pdfText, aiValue, attempted, inserted,
                 savedAssignments, res, jobRow>>

\* return savedAssignments, to processJob
ReturnSavedToWorker ==
  /\ pc = "saveMultipleAssignments"
  /\ proc = "worker"
  /\ saveIdx > Len(assignments)
  /\ pc' = "updateJobResult"
  /\ UNCHANGED <<restVars, envVars, bulletVars, extractVars, mergeVars, parseVars, flowVars>>

\* await database.updateJobResult(job.id, resultData, courseId), then the
\* cleanup of the success path
UpdateJobResult ==
  /\ pc = "updateJobResult"
  /\ \E ok \in BOOLEAN :
       IF ok
       THEN /\ jobRow' = [jobRow EXCEPT
                            !.status = "completed",
                            !.result = <<[data |-> aiValue[1], course_id |-> courseId,
                                          assignments_saved |-> Len(savedAssignments)]>>]
            /\ fileOnDisk' = FALSE
            /\ pc' = "getPendingJobs"
       ELSE WorkerCatch(<<"E", "R", "_", "L", "O", "C", "K", "_", "D", "E", "A", "D", "L", "O", "C", "K">>)
  /\ effects' = effects \cup {"dbWrite"}
  /\ UNCHANGED <<restVars, envVars, bulletVars, extractVars, mergeVars, parseVars, proc, activeDatabase,
                 healthRes, reqFile, pdfText, aiValue, saveVars, res>>

NextWorker ==
  \/ GetPendingJobs
  \/ UpdateJobStatus
  \/ AnalyzeWorker
  \/ ParseInWorker
  \/ SaveCourseInWorker
  \/ SaveAssignment
  \/ ReturnSavedToWorker
  \/ UpdateJobResult

SpecWorker == InitWorker /\ [][NextWorker]_vars

-----------------------------------------------------------------------------
(* Properties of the worker (SpecWorker) *)

\* the reply of the model was no JSON: the analysis returned the fallback
StructuredParseFailed ==
  /\ aiValue # <<>>
  /\ Get(aiValue[1], <<"e", "r", "r", "o", "r">>) = String(<<"F", "a", "i", "l", "e", "d", " ", "t", "o", " ", "p", "a", "r", "s", "e", " ", "s", "t", "r", "u", "c", "t", "u", "r", "e", "d", " ", "d", "a", "t", "a">>)

\* C14: when the reply of the model is not valid JSON, the value handed on
\* carries the reply as raw_response with the flag, and the course fields and
\* the assignments are what the free-text extractors find in that reply
JsonFailureFallsBackToFreeText ==
  (pc = "saveCourse" /\ StructuredParseFailed) =>
    LET raw == Get(aiValue[1], <<"r", "a", "w", "_", "r", "e", "s", "p", "o", "n", "s", "e">>)
    IN /\ raw.kind = "string"
       /\ courseData.course_name = String(CourseDataOf(raw.text).course_name)
       /\ Len(assignments) = Len(extractAssignmentsFrom(raw.text, 1))

\* processJob has returned and the job will not be taken again
JobEnded == pc = "getPendingJobs" /\ jobRow.status # "pending"

\* C20: once the processing of a job has ended, on the success path or after
\* an analysis error, a database error or a job-table update error, the file
\* of the job is deleted
JobFileCleanedUp == JobEnded => ~fileOnDisk

-----------------------------------------------------------------------------
(* The page analysis of a PDF: analyzeSyllabusWithOpenAI of part_001.      *)
(* pdftocairo writes one image per page, named after the page number       *)
(* padded to the width of the page count, so that the sorted directory     *)
(* listing is in page order; an image is named here by its page number.    *)

\* a PDF is converted to at most MaxFiles page images
MaxFiles == 5

\* completion.choices[0].message.content of a page, already trimmed
PageReplies == {PageOct1, PageOct1Oct15}

\* if (!keyPages.includes(i)) keyPages.push(i)
PushNew(pages, i) == IF i \in Range(pages) THEN pages ELSE Append(pages, i)

\* for (let i = ...; i < n; i++) if (!keyPages.includes(i)) keyPages.push(i)
RECURSIVE PushFrom(_, _, _)
PushFrom(pages, i, n) == IF i < n THEN PushFrom(PushNew(pages, i), i + 1, n) ELSE pages

\* the first four pages: a selection that ignores the end of a long document
FirstFourPages(n) == [k \in 1..(IF n < 4 THEN n ELSE 4) |-> k - 1]

\* keyPages of a PDF of n > 1 page images: indexes 0 and 1, then the last two
KeyPages(n) ==
  LET firstTwo == IF n > 1 THEN <<0, 1>> ELSE <<0>>
  IN IF n > 2 THEN PushFrom(firstTwo, IF n - 2 > 2 THEN n - 2 ELSE 2, n) ELSE firstTwo

\* a promise of keyPages.map: its state, the text it resolved with and its
\* place in the order in which the calls completed (0 while it is pending)
PageCall(status, text, at) == [status |-> status, plain_text |-> text, at |-> at]

Completed(calls) == {k \in 1..Len(calls) : calls[k].status # "pending"}

\* a combinator that waits for every call and overlooks the rejections
AllSettled(calls) ==
  IF \A k \in 1..Len(calls) : calls[k].status # "pending" THEN "fulfilled" ELSE "pending"

\* Promise.all: rejected with the first rejection, fulfilled once every
\* promise is fulfilled
PromiseAll(calls) ==
  IF \E k \in 1..Len(calls) : calls[k].status = "rejected" THEN "rejected"
  ELSE IF \A k \in 1..Len(calls) : calls[k].status = "resolved" THEN "fulfilled"
  ELSE "pending"

\* the results listed as the calls completed
ResultsAsCompleted(pages, calls) ==
  [r \in 1..Len(calls) |->
     LET k == CHOOSE j \in 1..Len(calls) : calls[j].at = r
     IN [pageNumber |-> pages[k] + 1, plain_text |-> calls[k].plain_text]]

\* the value of Promise.all: the values of the promises in the order of the
\* promises, each { pageNumber: i + 1, data: { plain_text } }
ParallelResults(pages, calls) ==
  [k \in 1..Len(calls) |-> [pageNumber |-> pages[k] + 1, plain_text |-> calls[k].plain_text]]

InitPages ==
  /\ pc = "convertPdf"
  /\ IdleEnv /\ IdleBullet /\ IdleExtract /\ IdleMerge /\ IdleParse /\ IdleFlow
  /\ IdleRest

\* await execAsync(pdftocairo ...) and the code up to the next await: the
\* directory listing and, for several pages, keyPages and keyPages.map, which
\* runs every callback up to its model call; a conversion that fails is taken
\* to leave no image, and no image at all makes path.join throw
ConvertPdf ==
  /\ pc = "convertPdf"
  /\ \E converted \in BOOLEAN, n \in 0..MaxFiles :
       IF ~converted \/ n = 0
       THEN /\ pc' = "thrown"
            /\ UNCHANGED pageVars
       ELSE /\ files' = [i \in 1..n |-> i]
            /\ scratch' = 1..n
            /\ IF n > 1
               THEN /\ keyPages' = KeyPages(n)
                    /\ pageCalls' = [k \in 1..Len(KeyPages(n)) |-> PageCall("pending", <<>>, 0)]
                    /\ pc' = "awaitAll"
               ELSE /\ UNCHANGED <<keyPages, pageCalls>>
                    /\ pc' = "analyzePage"
  /\ UNCHANGED <<queueVars, poolVars, envVars, bulletVars, extractVars, mergeVars, parseVars, flowVars>>

\* the model call of one selected page completes: analyzePageWithOpenAI
\* returns { plain_text } or throws
SettlePageCall ==
  /\ \E k \in 1..Len(pageCalls) :
       /\ pageCalls[k].status = "pending"
       /\ LET at == Cardinality(Completed(pageCalls)) + 1
          IN \/ \E text \in PageReplies :
                  pageCalls' = [pageCalls EXCEPT ![k] = PageCall("resolved", text, at)]
             \/ pageCalls' = [pageCalls EXCEPT ![k] = PageCall("rejected", <<>>, at)]
  /\ UNCHANGED <<pc, files, scratch, keyPages>>
  /\ UNCHANGED <<queueVars, poolVars, envVars, bulletVars, extractVars, mergeVars, parseVars, flowVars>>

\* await Promise.all(pageAnalysisPromises) returns: allPageData.push(...),
\* then combineAllResults(allPageData)
AwaitAllFulfilled ==
  /\ pc = "awaitAll"
  /\ PromiseAll(pageCalls) = "fulfilled"
  /\ allPageData' = ParallelResults(keyPages, pageCalls)
  /\ pc' = "analyzeSyllabusWithOpenAI"
  /\ UNCHANGED <<pageVars, pageIdx, courseInfo, testDates, assignmentDeadlines, weeklyReadings,
                 majorDeliverables, importantDates>>
  /\ UNCHANGED <<queueVars, poolVars, envVars, bulletVars, extractVars, parseVars, flowVars>>

\* await Promise.all(pageAnalysisPromises) throws: catch (pdfError) throws
\* and the outer catch finds processedImagePath === imagePath
AwaitAllRejected ==
  /\ pc = "awaitAll"
  /\ PromiseAll(pageCalls) = "rejected"
  /\ pc' = "thrown"
  /\ UNCHANGED pageVars
  /\ UNCHANGED <<queueVars, poolVars, envVars, bulletVars, extractVars, mergeVars, parseVars, flowVars>>

\* after combineAllResults: files.forEach(fs.unlink), return combinedResult
ReleasePages ==
  /\ pc = "parseSyllabusData"
  /\ files # <<>>
  /\ scratch' = scratch \ Range(files)
  /\ pc' = "returned"
  /\ UNCHANGED <<files, keyPages, pageCalls>>
  /\ UNCHANGED <<queueVars, poolVars, envVars, bulletVars, extractVars, mergeVars, parseVars, flowVars>>

\* a PDF of one page: analyzePageWithOpenAI(processedImagePath), and the
\* unlink of processedImagePath after it or in the catch block
AnalyzeOnePage ==
  /\ pc = "analyzePage"
  /\ \/ \E text \in PageReplies : aiResponse' = text /\ pc' = "returned"
     \/ aiResponse' = aiResponse /\ pc' = "thrown"
  /\ scratch' = scratch \ {files[1]}
  /\ UNCHANGED <<files, keyPages, pageCalls, courseData, assignments>>
  /\ UNCHANGED <<queueVars, poolVars, envVars, bulletVars, extractVars, mergeVars, flowVars>>

NextPages ==
  \/ ConvertPdf
  \/ SettlePageCall
  \/ AwaitAllFulfilled
  \/ AwaitAllRejected
  \/ BeginCombine
  \/ CombinePage
  \/ ReturnCombined
  \/ ReleasePages
  \/ AnalyzeOnePage

SpecPages == InitPages /\ [][NextPages]_vars

Status(k) == pageCalls[k].status

\* C22: the calls of all selected pages are started together; a list is
\* handed to the merger only when every selected page's call has resolved,
\* and it holds every selected page; once a call is rejected the document
\* ends with an error and nothing is merged or returned
FanInFailAll ==
  /\ Len(pageCalls) \in {0, Len(keyPages)}
  /\ allPageData # <<>> =>
       /\ \A k \in 1..Len(keyPages) : Status(k) = "resolved"
       /\ {page.pageNumber : page \in Range(allPageData)} = {i + 1 : i \in Range(keyPages)}
  /\ (\E k \in 1..Len(pageCalls) : Status(k) = "rejected") =>
       /\ pc \in {"awaitAll", "thrown"}
       /\ allPageData = <<>>
       /\ aiResponse = <<>>

FanInFailAllWitness ==
  /\ pc = "thrown"
  /\ \E j, k \in 1..Len(pageCalls) : Status(j) = "rejected" /\ Status(k) = "resolved"

AnalysisEnded == pc \in {"returned", "thrown"}

\* C23: when the analysis of a PDF has ended, with a result or with an error,
\* no page image of the document is left
ScratchReleased == AnalysisEnded => scratch = {}

\* C24: the list handed to combineAllResults holds the selected pages in
\* strictly ascending page number, each with the text of its own call,
\* whatever the order in which the calls completed
PageOrderIndependent ==
  allPageData # <<>> =>
    /\ allPageData = [k \in 1..Len(keyPages) |->
                        [pageNumber |-> keyPages[k] + 1, plain_text |-> pageCalls[k].plain_text]]
    /\ \A j, k \in 1..Len(allPageData) :
         j < k => allPageData[j].pageNumber < allPageData[k].pageNumber

PageOrderWitness ==
  /\ pc = "returned"
  /\ allPageData # <<>>
  /\ \E j, k \in 1..Len(pageCalls) : j < k /\ pageCalls[j].at > pageCalls[k].at

-----------------------------------------------------------------------------
(* The worker loop on the jobs table: runWorker and processJob of          *)
(* part_000 with the job operations of the pooled Database module, each    *)
(* modelled by its SQL statement.  Every await is a step; one or two       *)
(* worker processes run against the same table.                            *)

\* the jobs table holds at most MaxJobs jobs, all created before the polling
MaxJobs == 2

\* at most MaxWorkers worker processes poll the table
MaxWorkers == 2

\* database.getPendingJobs(5)
BatchLimit == 5

\* setTimeout(resolve, 5000) when no job was pending, 10000 after an error
IdleDelay == 5000

ErrorDelay == 10000

JobIds == 1..Len(jobs)

WorkerIds == 1..Len(workers)

\* a worker process: the await it stands at, the rows getPendingJobs gave it,
\* the index of the job in hand, whether that job's analysis has returned,
\* and the delay it last waited or waits for
Worker(at, batch, idx, analysed, delay) ==
  [pc |-> at, batch |-> batch, idx |-> idx, analysed |-> analysed, delay |-> delay]

JobOf(w) == workers[w].batch[workers[w].idx]

\* a selection without the WHERE clause: every job, finished or not
AnyJobs(limit) ==
  LET rows == [j \in JobIds |-> j]
  IN SubSeq(rows, 1, IF Len(rows) < limit THEN Len(rows) ELSE limit)

\* SELECT * FROM jobs WHERE status = 'pending' ORDER BY created_at ASC LIMIT ?
PendingJobs(limit) ==
  LET IsPending(j) == jobs[j] = "pending"
      rows == SelectSeq([j \in JobIds |-> j], IsPending)
  IN SubSeq(rows, 1, IF Len(rows) < limit THEN Len(rows) ELSE limit)

InitQueue ==
  /\ pc = "runWorker"
  /\ IdleEnv /\ IdleBullet /\ IdleExtract /\ IdleMerge /\ IdleParse /\ IdleFlow
  /\ IdlePages /\ IdlePool
  /\ \E n \in 1..MaxJobs : jobs = [j \in 1..n |-> "pending"]
  /\ \E m \in 1..MaxWorkers : workers = [w \in 1..m |-> Worker("getPendingJobs", <<>>, 0, FALSE, 0)]
  /\ courseRows = [j \in JobIds |-> 0]
  /\ terminalWrites = [j \in JobIds |-> 0]

QueueFrame ==
  UNCHANGED <<pc, pageVars, poolVars, envVars, bulletVars, extractVars, mergeVars, parseVars, flowVars>>

\* processJob threw: the for loop is left, the catch of the while loop logs
\* and waits ten seconds
LoopCatch(w) == workers' = [workers EXCEPT ![w] = Worker("wait", <<>>, 0, FALSE, ErrorDelay)]

\* processJob returned: the for loop takes the next row, or the while loop
\* polls again
AfterJob(w) ==
  workers' = [workers EXCEPT ![w] =
                IF workers[w].idx < Len(workers[w].batch)
                THEN Worker("updateJobStatus", workers[w].batch, workers[w].idx + 1, FALSE,
                            workers[w].delay)
                ELSE Worker("getPendingJobs", <<>>, 0, FALSE, workers[w].delay)]

\* const pendingJobs = await database.getPendingJobs(5)
Poll(w) ==
  /\ workers[w].pc = "getPendingJobs"
  /\ \E ok \in BOOLEAN :
       IF ~ok THEN LoopCatch(w)
       ELSE LET rows == PendingJobs(BatchLimit)
            IN workers' = [workers EXCEPT ![w] =
                             IF rows = <<>> THEN Worker("wait", <<>>, 0, FALSE, IdleDelay)
                             ELSE Worker("updateJobStatus", rows, 1, FALSE, workers[w].delay)]
  /\ UNCHANGED <<jobs, courseRows, terminalWrites>>
  /\ QueueFrame

\* the timer of the while loop fires
Delay(w) ==
  /\ workers[w].pc = "wait"
  /\ workers' = [workers EXCEPT ![w].pc = "getPendingJobs"]
  /\ UNCHANGED <<jobs, courseRows, terminalWrites>>
  /\ QueueFrame

\* await database.updateJobStatus(job.id, 'processing')
MarkProcessing(w) ==
  /\ workers[w].pc = "updateJobStatus"
  /\ \E ok \in BOOLEAN :
       IF ok
       THEN /\ jobs' = [jobs EXCEPT ![JobOf(w)] = "processing"]
            /\ workers' = [workers EXCEPT ![w].pc = "analyzeSyllabusWithOpenAI"]
       ELSE /\ jobs' = jobs
            /\ workers' = [workers EXCEPT ![w].pc = "updateJobError"]
  /\ UNCHANGED <<courseRows, terminalWrites>>
  /\ QueueFrame

\* await analyzeSyllabusWithOpenAI(job.file_path) and parseSyllabusData
AnalyzeJob(w) ==
  /\ workers[w].pc = "analyzeSyllabusWithOpenAI"
  /\ \E ok \in BOOLEAN :
       workers' = [workers EXCEPT ![w].pc = IF ok THEN "saveCourse" ELSE "updateJobError",
                                  ![w].analysed = ok]
  /\ UNCHANGED <<jobs, courseRows, terminalWrites>>
  /\ QueueFrame

\* the inner try: saveCourse inserts the course row or throws, and the catch
\* goes on
SaveJob(w) ==
  /\ workers[w].pc = "saveCourse"
  /\ \E ok \in BOOLEAN :
       courseRows' = IF ok THEN [courseRows EXCEPT ![JobOf(w)] = @ + 1] ELSE courseRows
  /\ workers' = [workers EXCEPT ![w].pc = "updateJobResult"]
  /\ UNCHANGED <<jobs, terminalWrites>>
  /\ QueueFrame

\* await database.updateJobResult(job.id, resultData, courseId)
CompleteJob(w) ==
  /\ workers[w].pc = "updateJobResult"
  /\ \E ok \in BOOLEAN :
       IF ok
       THEN /\ jobs' = [jobs EXCEPT ![JobOf(w)] = "completed"]
            /\ terminalWrites' = [terminalWrites EXCEPT ![JobOf(w)] = @ + 1]
            /\ AfterJob(w)
       ELSE /\ UNCHANGED <<jobs, terminalWrites>>
            /\ workers' = [workers EXCEPT ![w].pc = "updateJobError"]
  /\ UNCHANGED courseRows
  /\ QueueFrame

\* the catch of processJob: await database.updateJobError(job.id, message)
FailJob(w) ==
  /\ workers[w].pc = "updateJobError"
  /\ \E ok \in BOOLEAN :
       IF ok
       THEN /\ jobs' = [jobs EXCEPT ![JobOf(w)] = "failed"]
            /\ terminalWrites' = [terminalWrites EXCEPT ![JobOf(w)] = @ + 1]
            /\ AfterJob(w)
       ELSE /\ UNCHANGED <<jobs, terminalWrites>>
            /\ LoopCatch(w)
  /\ UNCHANGED courseRows
  /\ QueueFrame

WorkerStep(w) ==
  \/ Poll(w)
  \/ Delay(w)
  \/ MarkProcessing(w)
  \/ AnalyzeJob(w)
  \/ SaveJob(w)
  \/ CompleteJob(w)
  \/ FailJob(w)

NextQueue ==
  \/ \E w \in WorkerIds : Poll(w)
  \/ \E w \in WorkerIds : Delay(w)
  \/ \E w \in WorkerIds : MarkProcessing(w)
  \/ \E w \in WorkerIds : AnalyzeJob(w)
  \/ \E w \in WorkerIds : SaveJob(w)
  \/ \E w \in WorkerIds : CompleteJob(w)
  \/ \E w \in WorkerIds : FailJob(w)

SpecQueue == InitQueue /\ [][NextQueue]_vars

\* one worker process on the table
InitSingleWorker == InitQueue /\ Len(workers) = 1

SpecSingleWorker == InitSingleWorker /\ [][NextQueue]_vars

\* every worker process keeps running: each takes its next step eventually
SpecQueueFair == SpecQueue /\ \A w \in 1..MaxWorkers : WF_vars(w \in WorkerIds /\ WorkerStep(w))

SingleWorker == Len(workers) = 1

Terminal == {"completed", "failed"}

-----------------------------------------------------------------------------
(* The pooled Database module (test-real-pdf.js 141-443): the handles of    *)
(* the object and the operations the server and the worker call on it.     *)

\* the log holds at most MaxCalls operations
MaxCalls == 3

Operations ==
  {"saveCourse", "saveAssignment", "getJobById", "getPendingJobs",
   "updateJobStatus", "updateJobResult", "updateJobError"}

\* the property of this on which each operation calls execute
HandleOf ==
  [saveCourse |-> "connection", saveAssignment |-> "connection",
   getJobById |-> "connection", getPendingJobs |-> "connection",
   updateJobStatus |-> "pool", updateJobResult |-> "pool", updateJobError |-> "pool"]

\* constructor: this.pool = null; the object has no other property
InitPool ==
  /\ pc = "new Database"
  /\ IdleEnv /\ IdleBullet /\ IdleExtract /\ IdleMerge /\ IdleParse /\ IdleFlow
  /\ IdlePages /\ IdleQueue
  /\ pool = "null"
  /\ connection = "undefined"
  /\ dbCalls = <<>>

PoolFrame ==
  UNCHANGED <<pageVars, queueVars, envVars, bulletVars, extractVars, mergeVars, parseVars, flowVars>>

\* connect(): this.pool = mysql.createPool(...), then the test connection and
\* createTables, which may throw
Connect ==
  /\ pc = "new Database"
  /\ pool' = "Pool"
  /\ \E ok \in BOOLEAN : pc' = IF ok THEN "connected" ELSE "connect failed"
  /\ UNCHANGED <<connection, dbCalls>>
  /\ PoolFrame

\* one of the operations after connect() has resolved: execute on the handle
\* throws a TypeError when the handle is null or undefined, and otherwise the
\* query succeeds or fails
Operation ==
  /\ pc = "connected"
  /\ Len(dbCalls) < MaxCalls
  /\ \E op \in Operations :
       LET handle == IF HandleOf[op] = "pool" THEN pool ELSE connection
       IN \E ended \in IF handle \in {"null", "undefined"} THEN {"TypeError"}
                       ELSE {"resolved", "query error"} :
            dbCalls' = Append(dbCalls, [op |-> op, on |-> HandleOf[op], ended |-> ended])
  /\ UNCHANGED <<pc, pool, connection>>
  /\ PoolFrame

NextPool ==
  \/ Connect
  \/ Operation

SpecPool == InitPool /\ [][NextPool]_vars

\* C30: no operation called after connect() has resolved ends with the
\* TypeError of a handle that was never set
HandleInitialised == \A k \in 1..Len(dbCalls) : dbCalls[k].ended # "TypeError"

====
